---- MODULE Spec2Model ----
(***************************************************************************)
(* Composition layers of lingvo/core/builder_layers.py.                    *)
(*                                                                         *)
(* One state machine per layer shares this module:                         *)
(*   SpecGraph    GraphLayer.FProp and GraphLayer.FPropMeta walking the    *)
(*                same p.sub, one sub-layer per step;                      *)
(*   SpecCtor     GraphLayer.__init__ followed by FProp;                   *)
(*   SpecSeq      SequentialLayer.__init__, FProp and FPropMeta;           *)
(*   SpecRepeat   RepeatLayer.FProp over recurrent.Recurrent;              *)
(*   SpecPRep     ParallelRepeatLayer.FProp and FPropMeta;                 *)
(*   SpecSoft     SoftCondLayer.FProp;                                     *)
(*   SpecBatch    BatchParallelLayer.FProp, one shard per step;            *)
(*   SpecArgIndex ArgIndexLayer.FProp;                                     *)
(*   SpecFirstN   FirstNLayer.FProp and FPropMeta;                         *)
(*   SpecPar      ParallelLayer.FPropMeta, called repeatedly.              *)
(*                                                                         *)
(* Strings are sequences of one-character strings, so that split, strip    *)
(* and the identifier regex are computed rather than assumed.              *)
(* Sub-layers are opaque: the tensor a sub-layer returns is identified by  *)
(* the sub-layer that produced it and its position in the returned tuple.  *)
(***************************************************************************)
EXTENDS Integers, Sequences, FiniteSets, TLC

\* ------------------------------------------------------------------------
\* Bounds of the model
\* ------------------------------------------------------------------------

\* largest len(p.sub) of a GraphLayer
MaxSub == 2

\* largest number of values a sub-layer of a GraphLayer returns
MaxArity == 2

\* ------------------------------------------------------------------------
\* Python string operations used by the GraphLayer
\* ------------------------------------------------------------------------

Letters == {"a", "b", "c", "d", "_"}

Digits == {"1"}

RECURSIVE LStrip(_)
LStrip(s) ==
  IF s # <<>> /\ Head(s) = " " THEN LStrip(Tail(s)) ELSE s

RECURSIVE RStrip(_)
RStrip(s) ==
  IF s # <<>> /\ s[Len(s)] = " " THEN RStrip(SubSeq(s, 1, Len(s) - 1)) ELSE s

\* str.strip()
Strip(s) == RStrip(LStrip(s))

\* does s start with sep
StartsWith(s, sep) ==
  /\ Len(s) >= Len(sep)
  /\ SubSeq(s, 1, Len(sep)) = sep

\* str.split(sep): the pieces between the non-overlapping occurrences of
\* sep, found left to right; cur is the piece being collected
RECURSIVE SplitFrom(_, _, _)
SplitFrom(s, sep, cur) ==
  IF s = <<>> THEN <<cur>>
  ELSE IF StartsWith(s, sep)
       THEN <<cur>> \o SplitFrom(SubSeq(s, Len(sep) + 1, Len(s)), sep, <<>>)
       ELSE SplitFrom(Tail(s), sep, Append(cur, Head(s)))

Split(s, sep) == SplitFrom(s, sep, <<>>)

\* one [_a-zA-Z][_a-zA-Z0-9]* component
IsIdentifier(x) ==
  /\ x # <<>>
  /\ x[1] \in Letters
  /\ \A k \in 2..Len(x) : x[k] \in Letters \cup Digits

\* re.match of [_a-zA-Z][_a-zA-Z0-9]*(\.[_a-zA-Z][_a-zA-Z0-9]*)*$
IdRegexMatch(x) ==
  LET parts == Split(x, <<".">>)
  IN \A k \in 1..Len(parts) : IsIdentifier(parts[k])

\* ','.join(names) and the signature 'i->o' built from two lists of names
RECURSIVE Join(_, _)
Join(names, sep) ==
  IF names = <<>> THEN <<>>
  ELSE IF Len(names) = 1 THEN names[1]
  ELSE names[1] \o sep \o Join(Tail(names), sep)

Arrow == <<"-", ">">>

MkSig(i, o) == Join(i, <<",">>) \o Arrow \o Join(o, <<",">>)

\* ------------------------------------------------------------------------
\* Values held by a NestedMap of named tensors
\* ------------------------------------------------------------------------
\* A tree is a function from relative paths (sequences of keys) to nodes;
\* the empty path is the root.  A node is a tf.Tensor (or tshape.Shape in
\* FPropMeta), a py_utils.NestedMap, or the Python tuple a sub-layer returned.
\* by is the producer (0: a top-level argument, i: the i-th sub-layer) and
\* pos the position of the value among what the producer supplied.

TensorTree(by, pos) == (<<>> :> [kind |-> "tensor", by |-> by, pos |-> pos])

TupleTree(by, n) == (<<>> :> [kind |-> "tuple", by |-> by, pos |-> n])

MapNode(by) == [kind |-> "map", by |-> by, pos |-> 0]

EmptyMap == (<<>> :> MapNode(0))

IsPrefix(q, p) == Len(q) <= Len(p) /\ SubSeq(p, 1, Len(q)) = q

\* the value stored at path q of tree nt
Subtree(nt, q) ==
  LET below == {p \in DOMAIN nt : IsPrefix(q, p)}
  IN [r \in {SubSeq(p, Len(q) + 1, Len(p)) : p \in below} |-> nt[q \o r]]

\* tree t placed at path q
Graft(q, t) ==
  [p \in {q \o r : r \in DOMAIN t} |-> t[SubSeq(p, Len(q) + 1, Len(p))]]

\* ------------------------------------------------------------------------
\* GraphLayer: the namespace of named tensors
\* ------------------------------------------------------------------------

\* the path a dotted name denotes: path.strip().split('.')
PathOf(path) == Split(Strip(path), <<".">>)

\* SetItem without its assertion: a bound name is overwritten
SetItemOverwrite(q, t, nt) ==
  [ok |-> TRUE, nt |-> Graft(q, t) @@ nt]

\* assert n not in named_tensors; named_tensors[n] = t, q being the path
\* of key n
SetItem(q, t, nt) ==
  IF q \in DOMAIN nt THEN [ok |-> FALSE, nt |-> nt]
  ELSE [ok |-> TRUE, nt |-> nt @@ Graft(q, t)]

\* The loop and the final assignment of AddNamedTensor, at node `at` of nt
\* with `names` still to consume.  Testing `n in` or assigning an item of a
\* value that is not a NestedMap raises.
RECURSIVE AddWalk(_, _, _, _)
AddWalk(names, at, t, nt) ==
  IF nt[at].kind # "map" THEN [ok |-> FALSE, nt |-> nt]
  ELSE LET q == Append(at, Head(names))
       IN IF Len(names) > 1
          THEN AddWalk(Tail(names), q, t,
                       IF q \in DOMAIN nt THEN nt
                       ELSE nt @@ (q :> MapNode(t[<<>>].by)))
          ELSE SetItem(q, t, nt)

\* GraphLayer.AddNamedTensor(p, path, t, named_tensors)
AddNamedTensor(path, t, named_tensors) ==
  AddWalk(PathOf(path), <<>>, t, named_tensors)

RECURSIVE GetWalk(_, _, _)
GetWalk(names, at, nt) ==
  IF names = <<>> THEN [ok |-> TRUE, val |-> Subtree(nt, at)]
  ELSE IF nt[at].kind # "map" THEN [ok |-> FALSE, val |-> EmptyMap]
  ELSE LET q == Append(at, Head(names))
       IN IF q \notin DOMAIN nt THEN [ok |-> FALSE, val |-> EmptyMap]
          ELSE GetWalk(Tail(names), q, nt)

\* GetNamedTensor that yields an empty NestedMap for a name it cannot resolve
GetNamedTensorDefault(named_tensors, path) ==
  LET g == GetWalk(PathOf(path), <<>>, named_tensors)
  IN IF g.ok THEN g ELSE [ok |-> TRUE, val |-> EmptyMap]

\* GraphLayer.GetNamedTensor(p, named_tensors, path)
GetNamedTensor(named_tensors, path) ==
  GetWalk(PathOf(path), <<>>, named_tensors)

\* [x.strip() for x in s.split(',')]
StripAll(xs) == [k \in 1..Len(xs) |-> Strip(xs[k])]

\* GraphLayer.ParseSignature(s)
ParseSignature(s) ==
  LET parts == Split(s, Arrow)
  IN IF Len(parts) # 2
     THEN [ok |-> FALSE, i_tensors |-> <<>>, o_tensors |-> <<>>]
     ELSE LET i_tensors == StripAll(Split(parts[1], <<",">>))
              o_tensors == StripAll(Split(parts[2], <<",">>))
          IN [ok |-> /\ i_tensors # <<>>
                     /\ o_tensors # <<>>
                     /\ \A k \in 1..Len(i_tensors) : IdRegexMatch(i_tensors[k])
                     /\ \A k \in 1..Len(o_tensors) : IdRegexMatch(o_tensors[k]),
              i_tensors |-> i_tensors,
              o_tensors |-> o_tensors]

\* one entry of the record of namespace accesses
Access(op, path, ok) == [op |-> op, path |-> Strip(path), ok |-> ok]

\* [GetNamedTensor(p, named_tensors, x) for x in names], left to right,
\* stopping at the first failure
RECURSIVE GetAll(_, _)
GetAll(nt, names) ==
  IF names = <<>> THEN [ok |-> TRUE, vals |-> <<>>, ops |-> <<>>]
  ELSE LET g == GetNamedTensor(nt, Head(names))
       IN IF ~g.ok
          THEN [ok |-> FALSE, vals |-> <<>>,
                ops |-> <<Access("get", Head(names), FALSE)>>]
          ELSE LET rest == GetAll(nt, Tail(names))
               IN [ok |-> rest.ok,
                   vals |-> IF rest.ok THEN <<g.val>> \o rest.vals ELSE <<>>,
                   ops |-> <<Access("get", Head(names), TRUE)>> \o rest.ops]

\* for n, t in zip(names, ts): AddNamedTensor(p, n, t, named_tensors),
\* stopping at the first failure
RECURSIVE AddAll(_, _, _)
AddAll(nt, names, ts) ==
  IF names = <<>> \/ ts = <<>> THEN [ok |-> TRUE, nt |-> nt, ops |-> <<>>]
  ELSE LET a == AddNamedTensor(Head(names), Head(ts), nt)
       IN IF ~a.ok
          THEN [ok |-> FALSE, nt |-> a.nt,
                ops |-> <<Access("add", Head(names), FALSE)>>]
          ELSE LET rest == AddAll(a.nt, Tail(names), Tail(ts))
               IN [ok |-> rest.ok, nt |-> rest.nt,
                   ops |-> <<Access("add", Head(names), TRUE)>> \o rest.ops]

\* ------------------------------------------------------------------------
\* GraphLayer: state
\* ------------------------------------------------------------------------

VARIABLES
  p_name,           \* p.name
  p_sub,            \* p.sub as given to __init__: records [sig, named]
  input_endpoints,  \* p.input_endpoints
  output_endpoints, \* p.output_endpoints, fixed when the walks read it
  nsub,             \* len(p.sub)
  seq,              \* self._seq: the names of the children
  ctor_state,       \* "new", "built" or "failed": progress of __init__
  theta,            \* the indices of the children whose name is a key of theta
  args,             \* the kinds of *args of FProp (and of FPropMeta)
  idx,              \* loop position in p.sub, shared by FProp and FPropMeta
  sig,              \* p.sub[idx][0] of the iteration last run, fixed likewise
  arity,            \* number of values the sub-layer last run yields
  fp_state,         \* FProp: "init", "running", "returned" or "failed"
  fp_err,           \* FProp: what raised: "nargs" (583), "bind" (589), "theta"
                    \* (593), "parse" (594), "get" (596), "arity" (604),
                    \* "add" (606), "out" (609); or "none"
  named_tensors,    \* FProp: named_tensors
  fp_calls,         \* FProp: indices of the children whose FProp was invoked
  input_args,       \* FProp: input_args of the last child invoked
  fp_ops,           \* FProp: namespace accesses of the step last run
  layer_out,        \* FProp: the value returned
  m_state,          \* FPropMeta: "init", "running", "returned" or "failed"
  m_err,            \* FPropMeta: what raised, named as for FProp
  m_named_tensors,  \* FPropMeta: named_tensors
  m_calls,          \* FPropMeta: indices of the children whose FPropMeta ran
  m_ops,            \* FPropMeta: namespace accesses of the step last run
  total,            \* FPropMeta: total
  m_flops,          \* flops reported by each child FPropMeta call, in order
  m_out             \* FPropMeta: the record returned

cfg_vars == <<p_name, p_sub, input_endpoints, output_endpoints, nsub, theta,
              args>>

fp_vars == <<fp_state, fp_err, named_tensors, fp_calls, input_args, fp_ops,
             layer_out>>

m_vars == <<m_state, m_err, m_named_tensors, m_calls, m_ops, total, m_flops,
            m_out>>

graph_vars == <<cfg_vars, seq, ctor_state, idx, sig, arity, fp_vars, m_vars>>

\* the state of a SequentialLayer

VARIABLES
  s_name,    \* p.name
  s_repeat,  \* p.repeat
  s_sub,     \* p.sub: the kind of each sub-layer
  s_theta,   \* theta given to FProp: [keys, rep], the names theta holds and,
             \* per entry of theta.rep, the names that entry holds
  s_args,    \* *args given to FProp; FPropMeta is given their shapes
  s_ctor,    \* "new", "built" or "failed": progress of __init__
  s_seq,     \* self._seq: the names of the children (their index in p.sub)
  s_rep,     \* len(self.rep): the number of repetitions created
  sf_state,  \* FProp: "init", "running", "returned" or "failed"
  sf_r,      \* FProp: position in zip(self.rep, theta.rep)
  sf_j,      \* FProp: position in self._seq
  sf_args,   \* FProp: args
  sf_calls,  \* FProp: the sub-layers whose FProp was invoked, in order
  sm_state,  \* FPropMeta: "init", "running", "returned" or "failed"
  sm_r,      \* FPropMeta: position in range(p.repeat)
  sm_j,      \* FPropMeta: position in p.sub
  sm_args,   \* FPropMeta: args
  sm_total,  \* FPropMeta: total
  sm_calls,  \* FPropMeta: the sub-layers whose FPropMeta was invoked
  sm_flops,  \* FPropMeta: meta.flops of each of these calls
  sm_out     \* FPropMeta: the record returned

scfg_vars == <<s_name, s_repeat, s_sub, s_theta, s_args>>

sf_vars == <<sf_state, sf_r, sf_j, sf_args, sf_calls>>

sm_vars == <<sm_state, sm_r, sm_j, sm_args, sm_total, sm_calls, sm_flops,
             sm_out>>

seq_vars == <<scfg_vars, s_ctor, s_seq, s_rep, sf_vars, sm_vars>>

\* the state of a RepeatLayer
VARIABLES
  r_name,         \* p.name
  r_repeat,       \* p.repeat
  r_body,         \* p.body: the kind of the body layer
  r_vars,         \* the keys of self.body.vars
  r_theta,        \* theta.body given to FProp, flattened: [key, val] leaves
  r_args,         \* *args given to FProp: tensors or None
  r_ctor,         \* "new", "built" or "failed": progress of __init__
  r_fp,           \* FProp: "init", "running", "returned" or "failed"
  r_theta_stack,  \* FProp: theta_stack, flattened
  r_i,            \* Recurrent: the step about to run
  r_state,        \* Recurrent: the state carried from step to step
  r_calls,        \* the calls of self.body.FProp: [theta, ins, outs]
  r_out           \* FProp: the value returned

rcfg_vars == <<r_name, r_repeat, r_body, r_vars, r_theta, r_args>>

rep_vars == <<rcfg_vars, r_ctor, r_fp, r_theta_stack, r_i, r_state, r_calls,
              r_out>>

\* the state of a ParallelRepeatLayer
VARIABLES
  pr_name,         \* p.name
  pr_repeat,       \* p.repeat
  pr_body,         \* p.body: the kind of the body layer
  pr_vars,         \* the keys of self.body.vars
  pr_theta,        \* theta.body given to FProp, flattened: [key, val] leaves
  pr_args,         \* *args given to FProp: tensors with a leading axis
  pr_ctor,         \* "new", "built" or "failed": progress of __init__
  pr_fp,           \* FProp: "init", "running", "returned" or "failed"
  pr_theta_stack,  \* FProp: theta_stack, flattened
  pr_out_shapes,   \* FProp: out_shapes
  pr_i,            \* Recurrent: the step about to run
  pr_state,        \* Recurrent: the state carried from step to step
  pr_acc,          \* Recurrent: the states accumulated so far
  pr_calls,        \* the calls of self.body.FProp: [theta, ins, outs]
  pr_out,          \* FProp: the value returned
  pr_m,            \* FPropMeta: "init" or "returned"
  pr_meta          \* FPropMeta: the record returned

prcfg_vars == <<pr_name, pr_repeat, pr_body, pr_vars, pr_theta, pr_args>>

prfp_vars == <<pr_fp, pr_theta_stack, pr_out_shapes, pr_i, pr_state, pr_acc,
               pr_calls, pr_out>>

prep_vars == <<prcfg_vars, pr_ctor, prfp_vars, pr_m, pr_meta>>

\* the state of a SoftCondLayer
VARIABLES
  sc_name,      \* p.name
  sc_experts,   \* p.num_experts; 0 stands for None as well
  sc_cond_dim,  \* p.cond_dim; 0 stands for None as well
  sc_w,         \* theta.w: cond_dim rows of num_experts entries
  sc_vars,      \* the keys of self.body.vars
  sc_theta,     \* theta.body, flattened: [key, val] leaves
  sc_inputs,    \* inputs, reshaped to rows of cond_dim entries
  sc_ctor,      \* "new", "built" or "failed": progress of __init__
  sc_fp,        \* FProp: "init" or "returned"
  sc_dist,      \* FProp: expert_dist
  sc_calls,     \* the calls of self.body.FProp: [theta, ins]
  sc_out        \* FProp: the value returned

sccfg_vars == <<sc_name, sc_experts, sc_cond_dim, sc_w, sc_vars, sc_theta,
                sc_inputs>>

soft_vars == <<sccfg_vars, sc_ctor, sc_fp, sc_dist, sc_calls, sc_out>>

\* A BatchParallelLayer and one FProp call on it
VARIABLES
  bp_name,      \* p.name
  bp_sub,       \* self.sub: which layer it is
  bp_num,       \* self.cluster.num_devices_per_split
  bp_theta,     \* theta.sub
  bp_args,      \* args: [kind, rows], rows along the batch axis
  bp_ctor,      \* "new", "built" or "failed": progress of __init__
  bp_fp,        \* FProp: "init", "loop", "returned" or "failed"
  bp_inps,      \* FProp: inps
  bp_i,         \* FProp: the number of shards done
  bp_outs,      \* FProp: outs
  bp_calls,     \* the calls of self.sub.FProp: [theta, xs]
  bp_out        \* FProp: the value returned

bpcfg_vars == <<bp_name, bp_sub, bp_num, bp_theta, bp_args>>

batch_vars == <<bp_name, bp_sub, bp_num, bp_theta, bp_args, bp_ctor, bp_fp,
                bp_inps, bp_i, bp_outs, bp_calls, bp_out>>

\* An ArgIndexLayer and one FProp call on it
VARIABLES
  ai_name,      \* p.name
  ai_idx,       \* p.idx, indices counted from 0 as in the source
  ai_args,      \* args
  ai_ctor,      \* "new", "built" or "failed": progress of __init__
  ai_fp,        \* FProp: "init", "returned", "assert" (an assertion
                \* failed) or "index" (args[i] raised IndexError)
  ai_r,         \* FProp: r as far as it was built
  ai_out        \* FProp: the value returned

aicfg_vars == <<ai_name, ai_idx, ai_args>>

argidx_vars == <<ai_name, ai_idx, ai_args, ai_ctor, ai_fp, ai_r, ai_out>>

\* A FirstNLayer, one FProp call and one FPropMeta call on it
VARIABLES
  fn_name,      \* p.name
  fn_n,         \* p.n
  fn_args,      \* args of FProp
  fn_shapes,    \* args of FPropMeta: the shapes of the same arguments
  fn_ctor,      \* "new", "built" or "failed": progress of __init__
  fn_fp,        \* FProp: "init", "returned" or "failed"
  fn_out,       \* FProp: the value returned
  fn_m,         \* FPropMeta: "init", "returned" or "failed"
  fn_meta       \* FPropMeta: the NestedMap returned

fncfg_vars == <<fn_name, fn_n, fn_args, fn_shapes>>

firstn_vars == <<fn_name, fn_n, fn_args, fn_shapes, fn_ctor, fn_fp, fn_out,
                 fn_m, fn_meta>>

\* A ParallelLayer, the records its merge_meta hands out, and the FPropMeta
\* calls made on it
VARIABLES
  pl_name,      \* p.name
  pl_sub,       \* p.sub: per sub layer the flops its FPropMeta reports
  pl_merge,     \* p.merge_meta: [flops, shared]; shared when it hands out
                \* one record on every call
  pl_ctor,      \* "new", "built" or "failed": progress of __init__
  pl_heap,      \* the NestedMaps merge_meta has created, by identity
  pl_returns    \* per FPropMeta call: [rec, given, flops]: the record
                \* returned, its flops as merge_meta handed it out and its
                \* flops at the return

plcfg_vars == <<pl_name, pl_sub, pl_merge>>

par_vars == <<pl_name, pl_sub, pl_merge, pl_ctor, pl_heap, pl_returns>>

\* the state of the layers other than the one named
not_graph == <<seq_vars, rep_vars, prep_vars, soft_vars, batch_vars,
               argidx_vars, firstn_vars, par_vars>>

not_seq == <<graph_vars, rep_vars, prep_vars, soft_vars, batch_vars,
             argidx_vars, firstn_vars, par_vars>>

not_rep == <<graph_vars, seq_vars, prep_vars, soft_vars, batch_vars,
             argidx_vars, firstn_vars, par_vars>>

not_prep == <<graph_vars, seq_vars, rep_vars, soft_vars, batch_vars,
              argidx_vars, firstn_vars, par_vars>>

not_soft == <<graph_vars, seq_vars, rep_vars, prep_vars, batch_vars,
              argidx_vars, firstn_vars, par_vars>>

not_batch == <<graph_vars, seq_vars, rep_vars, prep_vars, soft_vars,
               argidx_vars, firstn_vars, par_vars>>

not_argidx == <<graph_vars, seq_vars, rep_vars, prep_vars, soft_vars,
                batch_vars, firstn_vars, par_vars>>

not_firstn == <<graph_vars, seq_vars, rep_vars, prep_vars, soft_vars,
                batch_vars, argidx_vars, par_vars>>

not_par == <<graph_vars, seq_vars, rep_vars, prep_vars, soft_vars,
             batch_vars, argidx_vars, firstn_vars>>

vars == <<graph_vars, seq_vars, rep_vars, prep_vars, soft_vars, batch_vars,
          argidx_vars, firstn_vars, par_vars>>

\* ------------------------------------------------------------------------
\* GraphLayer: inputs of the model
\* ------------------------------------------------------------------------

nA == <<"a">>

nB == <<"b">>

nC == <<"c">>

nD == <<"d">>

nAB == <<"a", ".", "b">>

nAC == <<"a", ".", "c">>

\* the signatures p.sub may hold: the docstring example ('a->c', 'c,b->d'),
\* every way a name can clash with or miss the namespace, and malformed ones
GoodSigs ==
  { MkSig(<<nA>>, <<nC>>),        MkSig(<<nC, nB>>, <<nD>>),
    MkSig(<<nB, nC>>, <<nD>>),    MkSig(<<nA>>, <<nA>>),
    MkSig(<<nA>>, <<nC, nC>>),    MkSig(<<nA>>, <<nC, nD>>),
    MkSig(<<nA>>, <<nAC>>),       MkSig(<<nAB>>, <<nD>>),
    MkSig(<<nA>>, <<nAB>>),       MkSig(<<nD>>, <<nC>>),
    MkSig(<<nC>>, <<nAC>>),
    <<" ", "a", " ", "-", ">", " ", "c", " ">> }

BadSigs ==
  { <<"a">>,
    <<"a", "-", ">", "b", "-", ">", "c">>,
    <<"-", ">", "c">>,
    <<"a", "-", ">">>,
    <<"a", ",", "-", ">", "c">>,
    <<"a", "-", ">", "1", "c">>,
    <<"a", "-", ">", "c", ".">> }

Signatures == GoodSigs \cup BadSigs

InputEndpointNames == {nA, nB, nAB}

\* p.input_endpoints: one name, or two that are distinct, equal or clash
InputEndpointLists ==
  {<<n>> : n \in InputEndpointNames}
    \cup {<<nA, nB>>, <<nA, nA>>, <<nA, nAB>>, <<nAB, nA>>, <<nAB, nB>>}

OutputEndpointLists ==
  {<<>>, <<nD>>, <<nC, nD>>, <<nA>>, <<nAB>>}

\* what __init__ may be given: empty and non-identifier endpoint names,
\* empty, arrowless and otherwise malformed signatures
CtorNames == {<<>>, <<"g">>}

CtorEndpointLists == {<<>>, <<nA>>, <<<<"1">>>>, <<nA, <<"1">>>>}

CtorOutputLists == {<<nC>>, <<<<"1">>>>, <<nA, <<"1">>>>}

CtorSigs ==
  { <<>>, <<"a">>, MkSig(<<nA>>, <<nC>>), <<"a", "-", ">", "c", ".">>,
    <<"a", "-", ">", "b", "-", ">", "c">>, <<"1", "-", ">", "c">> }

CtorSubs == [sig : CtorSigs, named : BOOLEAN]

CtorSubLists ==
  {<<>>} \cup {<<x>> : x \in CtorSubs}
         \cup {<<x, y>> : x \in CtorSubs, y \in CtorSubs}

\* a top-level argument is a tf.Tensor or a NestedMap {b: tf.Tensor}
ArgKinds == {"tensor", "map"}

ArgLists ==
  {<<x>> : x \in ArgKinds} \cup {<<x, y>> : x \in ArgKinds, y \in ArgKinds}

\* the k-th top-level argument
ArgTree(kind, k) ==
  IF kind = "tensor" THEN TensorTree(0, k)
  ELSE (<<>> :> [kind |-> "map", by |-> 0, pos |-> k])
         @@ (<< <<"b">> >> :> [kind |-> "tensor", by |-> 0, pos |-> k])

ArgTrees(as) == [k \in 1..Len(as) |-> ArgTree(as[k], k)]

DigitChars == <<"0", "1", "2", "3", "4", "5", "6", "7", "8", "9">>

\* '%02d' % i
Fmt02d(i) == <<DigitChars[((i \div 10) % 10) + 1], DigitChars[(i % 10) + 1]>>

\* sub.name when the params give one
GivenName(j) == <<"s">> \o Fmt02d(j)

\* ------------------------------------------------------------------------
\* GraphLayer.FProp and GraphLayer.FPropMeta, one loop iteration at a time
\* ------------------------------------------------------------------------

\* ParseSignature tabulated over the signatures the layers are given
Parsed == [s \in Signatures \cup CtorSigs |-> ParseSignature(s)]

NoOut == [bare |-> FALSE, vals |-> <<>>]

\* the outcome of one stretch of FProp or FPropMeta
Outcome(err, nt, called, ins, ops) ==
  [state |-> IF err = "none" THEN "running" ELSE "failed",
   err |-> err, nt |-> nt, called |-> called, ins |-> ins, ops |-> ops]

\* FProp up to the loop: the arity assertion and the binding of *args
FPropBind(eps, as) ==
  IF Len(eps) # Len(as)
  THEN Outcome("nargs", EmptyMap, FALSE, <<>>, <<>>)
  ELSE LET a == AddAll(EmptyMap, eps, ArgTrees(as))
       IN Outcome(IF a.ok THEN "none" ELSE "bind", a.nt, FALSE, <<>>, a.ops)

\* FPropMeta up to the loop
FPropMetaBind(eps, as) ==
  IF Len(eps) # Len(as)
  THEN Outcome("nargs", EmptyMap, FALSE, <<>>, <<>>)
  ELSE LET a == AddAll(EmptyMap, eps, ArgTrees(as))
       IN Outcome(IF a.ok THEN "none" ELSE "bind", a.nt, FALSE, <<>>, a.ops)

\* what FProp holds in ch_out before the length assertion, for a child that
\* yields k values (a bare tensor when k = 1) under n output names
ChOut(i, k, n) ==
  IF n = 1
  THEN <<IF k = 1 THEN TensorTree(i, 1) ELSE TupleTree(i, k)>>
  ELSE [j \in 1..k |-> TensorTree(i, j)]

\* assert len(ch_out) == len(o_tensors) in FProp; len() of a bare tensor
\* raises
FPropLenOk(k, n) == n = 1 \/ k = n

\* FPropSub that checks the output names before it invokes the child
FPropSubChecksFirst(nt, i, s, k, th) ==
  IF i \notin th THEN Outcome("theta", nt, FALSE, <<>>, <<>>)
  ELSE LET sg == Parsed[s]
       IN IF ~sg.ok THEN Outcome("parse", nt, FALSE, <<>>, <<>>)
          ELSE LET g == GetAll(nt, sg.i_tensors)
               IN IF ~g.ok THEN Outcome("get", nt, FALSE, <<>>, g.ops)
                  ELSE IF ~FPropLenOk(k, Len(sg.o_tensors))
                       THEN Outcome("arity", nt, TRUE, g.vals, g.ops)
                       ELSE LET a == AddAll(nt, sg.o_tensors,
                                            ChOut(i, k, Len(sg.o_tensors)))
                            IN Outcome(IF a.ok THEN "none" ELSE "add", a.nt,
                                       a.ok, g.vals, g.ops \o a.ops)

\* the body of the loop of FProp for child i with signature s, the child
\* yielding k values
FPropSub(nt, i, s, k, th) ==
  IF i \notin th THEN Outcome("theta", nt, FALSE, <<>>, <<>>)
  ELSE LET sg == Parsed[s]
       IN IF ~sg.ok THEN Outcome("parse", nt, FALSE, <<>>, <<>>)
          ELSE LET g == GetAll(nt, sg.i_tensors)
               IN IF ~g.ok THEN Outcome("get", nt, FALSE, <<>>, g.ops)
                  ELSE IF ~FPropLenOk(k, Len(sg.o_tensors))
                       THEN Outcome("arity", nt, TRUE, g.vals, g.ops)
                       ELSE LET a == AddAll(nt, sg.o_tensors,
                                            ChOut(i, k, Len(sg.o_tensors)))
                            IN Outcome(IF a.ok THEN "none" ELSE "add", a.nt,
                                       TRUE, g.vals, g.ops \o a.ops)

\* meta.out_shapes of child i
MetaOutShapes(i, k) == [j \in 1..k |-> TensorTree(i, j)]

\* assert len(ch_out) == len(o_tensors) in FPropMeta
FPropMetaLenOk(k, n) == k = n

\* meta.flops reported by child i for n input shapes
SubFlops(i, n) == i + n

\* the body of the loop of FPropMeta
FPropMetaSub(nt, i, s, k) ==
  LET sg == Parsed[s]
  IN IF ~sg.ok THEN Outcome("parse", nt, FALSE, <<>>, <<>>)
     ELSE LET g == GetAll(nt, sg.i_tensors)
          IN IF ~g.ok THEN Outcome("get", nt, FALSE, <<>>, g.ops)
             ELSE IF ~FPropMetaLenOk(k, Len(sg.o_tensors))
                  THEN Outcome("arity", nt, TRUE, g.vals, g.ops)
                  ELSE LET a == AddAll(nt, sg.o_tensors, MetaOutShapes(i, k))
                       IN Outcome(IF a.ok THEN "none" ELSE "add", a.nt,
                                  TRUE, g.vals, g.ops \o a.ops)

\* total += meta.flops
AddFlops(t, flops) == t + flops

\* FPropOut that never unwraps
FPropOutTuple(vals) == [bare |-> FALSE, vals |-> vals]

\* layer_out of FProp: the output endpoints, a bare value when there is one
FPropOut(vals) == [bare |-> Len(vals) = 1, vals |-> vals]

\* out_shapes of FPropMeta: always a tuple
FPropMetaOut(vals) == [bare |-> FALSE, vals |-> vals]

\* ------------------------------------------------------------------------
\* GraphLayer: actions
\* ------------------------------------------------------------------------

\* ChildName without `assert signature`
ChildNameNoAssert(s, named, i) ==
  IF named THEN [ok |-> TRUE, name |-> GivenName(i + 1)]
  ELSE LET parts == Split(s, Arrow)
       IN IF Len(parts) < 2 THEN [ok |-> FALSE, name |-> <<>>]
          ELSE [ok |-> TRUE,
                name |-> Split(parts[2], <<",">>)[1] \o <<"_">> \o Fmt02d(i)]

\* the name __init__ gives child i (0-based) of signature s; ok is FALSE
\* when `assert signature` fails or split('->')[1] does not exist
ChildName(s, named, i) ==
  IF s = <<>> THEN [ok |-> FALSE, name |-> <<>>]
  ELSE IF named THEN [ok |-> TRUE, name |-> GivenName(i + 1)]
  ELSE LET parts == Split(s, Arrow)
       IN IF Len(parts) < 2 THEN [ok |-> FALSE, name |-> <<>>]
          ELSE [ok |-> TRUE,
                name |-> Split(parts[2], <<",">>)[1] \o <<"_">> \o Fmt02d(i)]

\* GraphLayer.__init__
GraphCtor ==
  /\ ctor_state = "new"
  /\ LET names == [j \in 1..Len(p_sub) |->
                     ChildName(p_sub[j].sig, p_sub[j].named, j - 1)]
         ok == /\ p_name # <<>>
               /\ input_endpoints # <<>>
               /\ \A j \in 1..Len(p_sub) : names[j].ok
     IN /\ ctor_state' = IF ok THEN "built" ELSE "failed"
        /\ seq' = IF ok THEN [j \in 1..Len(p_sub) |-> names[j].name] ELSE <<>>
  /\ UNCHANGED <<cfg_vars, idx, sig, arity, fp_vars, m_vars>>
  /\ UNCHANGED not_graph

\* FProp, lines 581-589
FPropBegin ==
  LET r == FPropBind(input_endpoints, args)
  IN /\ fp_state' = r.state
     /\ fp_err' = r.err
     /\ named_tensors' = r.nt
     /\ fp_ops' = r.ops
     /\ UNCHANGED <<fp_calls, input_args, layer_out>>

\* FPropMeta, lines 618-624
FPropMetaBegin ==
  LET r == FPropMetaBind(input_endpoints, args)
  IN /\ m_state' = r.state
     /\ m_err' = r.err
     /\ m_named_tensors' = r.nt
     /\ m_ops' = r.ops
     /\ UNCHANGED <<m_calls, total, m_flops, m_out>>

\* FProp and FPropMeta are started on the same layer and arguments
GraphBegin ==
  /\ ctor_state = "built"
  /\ fp_state = "init"
  /\ m_state = "init"
  /\ FPropBegin
  /\ FPropMetaBegin
  /\ UNCHANGED <<cfg_vars, seq, ctor_state, idx, sig, arity>>
  /\ UNCHANGED not_graph

\* FProp, lines 592-606, for p.sub[idx] = (s, ch), ch yielding k values
FPropIter(s, k) ==
  IF fp_state # "running" THEN UNCHANGED fp_vars
  ELSE LET r == FPropSub(named_tensors, idx, s, k, theta)
       IN /\ fp_state' = r.state
          /\ fp_err' = r.err
          /\ named_tensors' = r.nt
          /\ fp_ops' = r.ops
          /\ fp_calls' = IF r.called THEN Append(fp_calls, idx) ELSE fp_calls
          /\ input_args' = IF r.called THEN r.ins ELSE input_args
          /\ UNCHANGED layer_out

\* FPropMeta, lines 627-638
FPropMetaIter(s, k) ==
  IF m_state # "running" THEN UNCHANGED m_vars
  ELSE LET r == FPropMetaSub(m_named_tensors, idx, s, k)
           flops == SubFlops(idx, Len(r.ins))
       IN /\ m_state' = r.state
          /\ m_err' = r.err
          /\ m_named_tensors' = r.nt
          /\ m_ops' = r.ops
          /\ m_calls' = IF r.called THEN Append(m_calls, idx) ELSE m_calls
          /\ total' = IF r.called THEN AddFlops(total, flops) ELSE total
          /\ m_flops' = IF r.called THEN Append(m_flops, flops) ELSE m_flops
          /\ UNCHANGED m_out

\* both walks take the iteration for p.sub[idx]
GraphSub(s, k) ==
  /\ idx <= nsub
  /\ fp_state = "running" \/ m_state = "running"
  /\ FPropIter(s, k)
  /\ FPropMetaIter(s, k)
  /\ idx' = idx + 1
  /\ sig' = s
  /\ arity' = k
  /\ UNCHANGED <<cfg_vars, seq, ctor_state>>
  /\ UNCHANGED not_graph

\* FProp, lines 608-614
FPropEnd(eps) ==
  IF fp_state # "running" THEN UNCHANGED fp_vars
  ELSE LET g == GetAll(named_tensors, eps)
       IN /\ fp_state' = IF g.ok THEN "returned" ELSE "failed"
          /\ fp_err' = IF g.ok THEN "none" ELSE "out"
          /\ fp_ops' = g.ops
          /\ layer_out' = IF g.ok THEN FPropOut(g.vals) ELSE layer_out
          /\ UNCHANGED <<named_tensors, fp_calls, input_args>>

\* FPropMeta, lines 640-643
FPropMetaEnd(eps) ==
  IF m_state # "running" THEN UNCHANGED m_vars
  ELSE LET g == GetAll(m_named_tensors, eps)
       IN /\ m_state' = IF g.ok THEN "returned" ELSE "failed"
          /\ m_err' = IF g.ok THEN "none" ELSE "out"
          /\ m_ops' = g.ops
          /\ m_out' = IF g.ok THEN [flops |-> total,
                                    out_shapes |-> FPropMetaOut(g.vals)]
                      ELSE m_out
          /\ UNCHANGED <<m_named_tensors, m_calls, total, m_flops>>

\* both walks leave the loop and resolve p.output_endpoints = eps
GraphEnd(eps) ==
  /\ idx > nsub
  /\ fp_state = "running" \/ m_state = "running"
  /\ output_endpoints' = eps
  /\ FPropEnd(eps)
  /\ FPropMetaEnd(eps)
  /\ UNCHANGED <<p_name, p_sub, input_endpoints, nsub, theta, args, seq,
                 ctor_state, idx, sig, arity>>
  /\ UNCHANGED not_graph

NoMeta == [flops |-> 0, out_shapes |-> NoOut]

\* the walks before FProp and FPropMeta are entered
WalkInit ==
  /\ idx = 1
  /\ sig = <<>>
  /\ arity = 0
  /\ fp_state = "init"
  /\ fp_err = "none"
  /\ named_tensors = EmptyMap
  /\ fp_calls = <<>>
  /\ input_args = <<>>
  /\ fp_ops = <<>>
  /\ layer_out = NoOut
  /\ m_state = "init"
  /\ m_err = "none"
  /\ m_named_tensors = EmptyMap
  /\ m_calls = <<>>
  /\ m_ops = <<>>
  /\ total = 0
  /\ m_flops = <<>>
  /\ m_out = NoMeta

\* a constructed GraphLayer whose children are all named by their params
GraphInit ==
  /\ p_name = <<"g">>
  /\ p_sub = <<>>
  /\ input_endpoints \in InputEndpointLists
  /\ output_endpoints = <<>>
  /\ nsub \in 0..MaxSub
  /\ seq = [j \in 1..nsub |-> GivenName(j)]
  /\ ctor_state = "built"
  /\ theta \in {1..nsub} \cup {(1..nsub) \ {j} : j \in 1..nsub}
  /\ args \in ArgLists
  /\ WalkInit

GraphNext ==
  \/ GraphBegin
  \/ \E s \in Signatures, k \in 1..MaxArity : GraphSub(s, k)
  \/ \E eps \in OutputEndpointLists : GraphEnd(eps)

\* the params handed to GraphLayer.__init__, FProp and FPropMeta to follow
CtorInit ==
  /\ p_name \in CtorNames
  /\ p_sub \in CtorSubLists
  /\ input_endpoints \in CtorEndpointLists
  /\ output_endpoints \in CtorOutputLists
  /\ nsub = Len(p_sub)
  /\ seq = <<>>
  /\ ctor_state = "new"
  /\ theta = 1..nsub
  /\ args = [k \in 1..Len(input_endpoints) |-> "tensor"]
  /\ WalkInit

CtorNext ==
  \/ GraphCtor
  \/ GraphBegin
  \/ \E k \in 1..MaxArity : idx <= nsub /\ GraphSub(p_sub[idx].sig, k)
  \/ GraphEnd(output_endpoints)


\* ------------------------------------------------------------------------
\* SequentialLayer
\* ------------------------------------------------------------------------

\* largest p.repeat of a SequentialLayer
MaxSeqRepeat == 2

\* largest len(p.sub) of a SequentialLayer
MaxSeqSub == 2

\* tensors and shape descriptors are the numbers 0..MaxVal
MaxVal == 1

Values == 0..MaxVal

\* the sub-layers a SequentialLayer is built from: "map" returns one value
\* per input, "sum" one value for all inputs, "dup" its first input twice
SubKinds == {"map", "sum", "dup"}

Bump(x) == (x + 1) % (MaxVal + 1)

RECURSIVE SumMod(_)
SumMod(xs) ==
  IF xs = <<>> THEN 0 ELSE (Head(xs) + SumMod(Tail(xs))) % (MaxVal + 1)

\* ch.FProp(th, *xs): a bare value or a tuple
SubFProp(kind, xs) ==
  IF kind = "map"
  THEN [bare |-> Len(xs) = 1, vals |-> [k \in 1..Len(xs) |-> Bump(xs[k])]]
  ELSE IF kind = "sum" THEN [bare |-> TRUE, vals |-> <<SumMod(xs)>>]
  ELSE [bare |-> FALSE, vals |-> <<xs[1], xs[1]>>]

\* sub.cls.FPropMeta(sub, *xs): out_shapes is always a tuple
SubFPropMeta(kind, xs) ==
  IF kind = "map"
  THEN [flops |-> Len(xs), out_shapes |-> [k \in 1..Len(xs) |-> Bump(xs[k])]]
  ELSE IF kind = "sum"
  THEN [flops |-> 2 * Len(xs), out_shapes |-> <<SumMod(xs)>>]
  ELSE [flops |-> 1, out_shapes |-> <<xs[1], xs[1]>>]

\* _ToTuple(x)
ToTuple(x) == x.vals

\* args[0] if len(args) == 1 else args
Unwrap(xs) == [bare |-> Len(xs) = 1, vals |-> xs]

Min(a, b) == IF a < b THEN a ELSE b

\* SequentialLayer.__init__
SeqCtor ==
  /\ s_ctor = "new"
  /\ IF s_name = <<>>
     THEN s_ctor' = "failed" /\ UNCHANGED <<s_seq, s_rep>>
     ELSE /\ s_ctor' = "built"
          /\ IF s_repeat <= 1
             THEN s_seq' = [j \in 1..Len(s_sub) |-> j] /\ s_rep' = 0
             ELSE s_seq' = <<>> /\ s_rep' = s_repeat
  /\ UNCHANGED <<scfg_vars, sf_vars, sm_vars>>
  /\ UNCHANGED not_seq

\* FProp is entered
SeqFPropBegin ==
  /\ s_ctor = "built"
  /\ sf_state = "init"
  /\ sf_state' = "running"
  /\ sf_args' = [bare |-> FALSE, vals |-> s_args]
  /\ UNCHANGED <<sf_r, sf_j, sf_calls>>
  /\ UNCHANGED <<scfg_vars, s_ctor, s_seq, s_rep, sm_vars>>
  /\ UNCHANGED not_seq

\* FProp with p.repeat <= 1: one iteration of `for (name, ch) in self._seq`
SeqFPropCall ==
  /\ sf_state = "running"
  /\ s_repeat <= 1
  /\ sf_j <= Len(s_seq)
  /\ LET name == s_seq[sf_j]
     IN IF name \notin s_theta.keys
        THEN sf_state' = "failed" /\ UNCHANGED <<sf_r, sf_j, sf_args, sf_calls>>
        ELSE /\ sf_args' = SubFProp(s_sub[name], ToTuple(sf_args))
             /\ sf_calls' = Append(sf_calls, name)
             /\ sf_j' = sf_j + 1
             /\ UNCHANGED <<sf_state, sf_r>>
  /\ UNCHANGED <<scfg_vars, s_ctor, s_seq, s_rep, sm_vars>>
  /\ UNCHANGED not_seq

\* the number of iterations of `for (ch, th) in zip(self.rep, theta.rep)`
ZipLen == Min(s_rep, Len(s_theta.rep))

\* FProp with p.repeat > 1: one iteration of the loop of the repetition
\* self.rep[sf_r], a SequentialLayer with repeat = 1 over the same p.sub,
\* run on theta.rep[sf_r]; after its last sub-layer the repetition returns
\* args[0] if len(args) == 1 else args
SeqFPropRepCall ==
  /\ sf_state = "running"
  /\ s_repeat > 1
  /\ sf_r <= ZipLen
  /\ sf_j <= Len(s_sub)
  /\ IF sf_j \notin s_theta.rep[sf_r]
     THEN sf_state' = "failed" /\ UNCHANGED <<sf_r, sf_j, sf_args, sf_calls>>
     ELSE LET out == SubFProp(s_sub[sf_j], ToTuple(sf_args))
          IN /\ sf_calls' = Append(sf_calls, sf_j)
             /\ IF sf_j < Len(s_sub)
                THEN sf_args' = out /\ sf_j' = sf_j + 1 /\ sf_r' = sf_r
                ELSE /\ sf_args' = Unwrap(ToTuple(out))
                     /\ sf_j' = 1
                     /\ sf_r' = sf_r + 1
             /\ UNCHANGED sf_state
  /\ UNCHANGED <<scfg_vars, s_ctor, s_seq, s_rep, sm_vars>>
  /\ UNCHANGED not_seq

\* FProp has left its loop
SeqFPropLoopDone ==
  IF s_repeat <= 1 THEN sf_j > Len(s_seq)
  ELSE sf_r > ZipLen \/ Len(s_sub) = 0

\* FProp, lines 421-422
SeqFPropReturn ==
  /\ sf_state = "running"
  /\ SeqFPropLoopDone
  /\ sf_state' = "returned"
  /\ sf_args' = Unwrap(ToTuple(sf_args))
  /\ UNCHANGED <<sf_r, sf_j, sf_calls>>
  /\ UNCHANGED <<scfg_vars, s_ctor, s_seq, s_rep, sm_vars>>
  /\ UNCHANGED not_seq

\* FPropMeta is entered, on the shapes of the arguments
SeqMetaBegin ==
  /\ s_ctor = "built"
  /\ sf_state \in {"returned", "failed"}
  /\ sm_state = "init"
  /\ sm_state' = "running"
  /\ sm_args' = s_args
  /\ sm_total' = 0
  /\ UNCHANGED <<sm_r, sm_j, sm_calls, sm_flops, sm_out>>
  /\ UNCHANGED <<scfg_vars, s_ctor, s_seq, s_rep, sf_vars>>
  /\ UNCHANGED not_seq

\* total = meta.flops: the flops of the last sub-layer only
SeqAddFlopsLast(t, flops) == flops

\* total += meta.flops
SeqAddFlops(t, flops) == t + flops

\* FPropMeta: one iteration of `for sub in p.sub` within range(p.repeat)
SeqMetaCall ==
  /\ sm_state = "running"
  /\ sm_r <= s_repeat
  /\ sm_j <= Len(s_sub)
  /\ LET meta == SubFPropMeta(s_sub[sm_j], sm_args)
     IN /\ sm_total' = SeqAddFlops(sm_total, meta.flops)
        /\ sm_args' = meta.out_shapes
        /\ sm_calls' = Append(sm_calls, sm_j)
        /\ sm_flops' = Append(sm_flops, meta.flops)
  /\ IF sm_j < Len(s_sub)
     THEN sm_j' = sm_j + 1 /\ sm_r' = sm_r
     ELSE sm_j' = 1 /\ sm_r' = sm_r + 1
  /\ UNCHANGED <<sm_state, sm_out>>
  /\ UNCHANGED <<scfg_vars, s_ctor, s_seq, s_rep, sf_vars>>
  /\ UNCHANGED not_seq

\* FPropMeta, line 436
SeqMetaReturn ==
  /\ sm_state = "running"
  /\ sm_r > s_repeat \/ Len(s_sub) = 0
  /\ sm_state' = "returned"
  /\ sm_out' = [flops |-> sm_total, out_shapes |-> sm_args]
  /\ UNCHANGED <<sm_r, sm_j, sm_args, sm_total, sm_calls, sm_flops>>
  /\ UNCHANGED <<scfg_vars, s_ctor, s_seq, s_rep, sf_vars>>
  /\ UNCHANGED not_seq

ValueLists == {<<x>> : x \in Values} \cup {<<x, y>> : x \in Values, y \in Values}

\* sequences of at most n elements of S
RECURSIVE SeqsUpTo(_, _)
SeqsUpTo(S, n) ==
  IF n = 0 THEN {<<>>}
  ELSE LET shorter == SeqsUpTo(S, n - 1)
       IN shorter \cup {Append(x, e) : x \in shorter, e \in S}

\* theta for a layer of n sub-layers and p.repeat = r: any set of keys when
\* r <= 1; otherwise theta.rep has up to r + 1 entries, which hold every key
\* but for at most one entry, which holds any set of keys
Thetas(n, r) ==
  IF r <= 1 THEN {[keys |-> ks, rep |-> <<>>] : ks \in SUBSET (1..n)}
  ELSE {[keys |-> {},
         rep |-> [k \in 1..len |-> IF k = q THEN ks ELSE 1..n]] :
          len \in 0..(r + 1), q \in 1..(r + 1), ks \in SUBSET (1..n)}

SeqIdle ==
  /\ s_ctor = "new"
  /\ s_seq = <<>>
  /\ s_rep = 0
  /\ sf_state = "init"
  /\ sf_r = 1
  /\ sf_j = 1
  /\ sf_args = [bare |-> FALSE, vals |-> <<>>]
  /\ sf_calls = <<>>
  /\ sm_state = "init"
  /\ sm_r = 1
  /\ sm_j = 1
  /\ sm_args = <<>>
  /\ sm_total = 0
  /\ sm_calls = <<>>
  /\ sm_flops = <<>>
  /\ sm_out = [flops |-> 0, out_shapes |-> <<>>]

\* the params, theta and arguments a SequentialLayer is given
SeqInit ==
  /\ s_name \in {<<>>, <<"s">>}
  /\ s_repeat \in (-1)..MaxSeqRepeat
  /\ s_sub \in SeqsUpTo(SubKinds, MaxSeqSub)
  /\ s_theta \in Thetas(Len(s_sub), s_repeat)
  /\ s_args \in ValueLists
  /\ SeqIdle

SeqNext ==
  \/ SeqCtor
  \/ SeqFPropBegin
  \/ SeqFPropCall
  \/ SeqFPropRepCall
  \/ SeqFPropReturn
  \/ SeqMetaBegin
  \/ SeqMetaCall
  \/ SeqMetaReturn

\* no SequentialLayer is in play
SeqNone ==
  /\ s_name = <<>>
  /\ s_repeat = 1
  /\ s_sub = <<>>
  /\ s_theta = [keys |-> {}, rep |-> <<>>]
  /\ s_args = <<>>
  /\ SeqIdle

\* no GraphLayer is in play
GraphNone ==
  /\ p_name = <<>>
  /\ p_sub = <<>>
  /\ input_endpoints = <<>>
  /\ output_endpoints = <<>>
  /\ nsub = 0
  /\ seq = <<>>
  /\ ctor_state = "new"
  /\ theta = {}
  /\ args = <<>>
  /\ WalkInit

\* ------------------------------------------------------------------------
\* RepeatLayer
\* ------------------------------------------------------------------------

\* largest p.repeat of a RepeatLayer
MaxRepeat == 3

\* the entries of the tensors of a RepeatLayer are the numbers 0..MaxElem
MaxElem == 2

Elems == 0..MaxElem

\* a value is None, a scalar tensor or a tensor with a leading axis
None == [kind |-> "none", v |-> <<>>]

Scalar(x) == [kind |-> "scalar", v |-> <<x>>]

Stacked(xs) == [kind |-> "stack", v |-> xs]

\* tf.stack([value] * repeat)
TfStack(value, repeat) == Stacked([i \in 1..repeat |-> value.v[1]])

\* _MaybeStackExtraTheta(th, all_vars, repeat), var_set the keys of all_vars
MaybeStackExtraTheta(th, var_set, repeat) ==
  [j \in 1..Len(th) |->
     IF th[j].key \notin var_set /\ th[j].val # None
     THEN [key |-> th[j].key, val |-> TfStack(th[j].val, repeat)]
     ELSE th[j]]

\* _ArgsToState(arg_list) in an FProp given n arguments: the entry '_s<i>' of
\* the state is modelled by the index i
ArgsToState(arg_list, n) ==
  [i \in {k \in 1..n : arg_list[k] # None} |-> arg_list[i]]

\* _StateToArgs(state) in an FProp given n arguments
StateToArgs(state, n) ==
  [i \in 1..n |-> IF i \in DOMAIN state THEN state[i] ELSE None]

\* the body layers a RepeatLayer is built from: "affine" returns one output
\* per input (None for None), "sum" one output for all inputs, "dup" one
\* output more than it has inputs
RepBodies == {"affine", "sum", "dup"}

\* the sum of the tensors among the values xs
RECURSIVE TensorSum(_)
TensorSum(xs) ==
  IF xs = <<>> THEN 0
  ELSE (IF Head(xs) = None THEN 0 ELSE Head(xs).v[1]) + TensorSum(Tail(xs))

\* self.body.FProp(theta_i, *xs): a bare value or a tuple
BodyFProp(body, theta_i, xs) ==
  LET w == TensorSum([j \in 1..Len(theta_i) |-> theta_i[j].val])
  IN IF body = "affine"
     THEN [bare |-> Len(xs) = 1,
           vals |-> [k \in 1..Len(xs) |->
                       IF xs[k] = None THEN None
                       ELSE Scalar((2 * xs[k].v[1] + w + k) % (MaxElem + 1))]]
     ELSE IF body = "sum"
     THEN [bare |-> TRUE,
           vals |-> <<Scalar((TensorSum(xs) + w) % (MaxElem + 1))>>]
     ELSE [bare |-> FALSE, vals |-> Append(xs, xs[1])]

\* _CellFn run on the arguments of FProp instead of the carried state
CellFnStale(body, args0, state0, theta_i) ==
  LET frop_inputs == args0
      frop_outputs == ToTuple(BodyFProp(body, theta_i, frop_inputs))
      ok == Len(frop_outputs) = Len(frop_inputs)
  IN [ok |-> ok, ins |-> frop_inputs, outs |-> frop_outputs,
      state1 |-> IF ok THEN ArgsToState(frop_outputs, Len(args0)) ELSE state0]

\* _CellFn(unused_theta, state0, theta_i) in an FProp given args0; ok is
\* FALSE when `assert len(frop_outputs) == len(frop_inputs)` fails
CellFn(body, args0, state0, theta_i) ==
  LET frop_inputs == StateToArgs(state0, Len(args0))
      frop_outputs == ToTuple(BodyFProp(body, theta_i, frop_inputs))
      ok == Len(frop_outputs) = Len(frop_inputs)
  IN [ok |-> ok, ins |-> frop_inputs, outs |-> frop_outputs,
      state1 |-> IF ok THEN ArgsToState(frop_outputs, Len(args0)) ELSE state0]

\* recurrent.Recurrent: the number of steps, the leading axis of the inputs
ScanLen(inputs) ==
  LET j == CHOOSE j \in 1..Len(inputs) : inputs[j].val # None
  IN Len(inputs[j].val.v)

\* recurrent.Recurrent: the inputs of step i, slice i of every tensor
SliceAt(inputs, i) ==
  [j \in 1..Len(inputs) |->
     [key |-> inputs[j].key,
      val |-> IF inputs[j].val = None THEN None
              ELSE Scalar(inputs[j].val.v[i])]]

\* RepeatLayer.__init__
RepeatCtor ==
  /\ r_ctor = "new"
  /\ r_ctor' = IF r_name # <<>> /\ r_repeat > 0 THEN "built" ELSE "failed"
  /\ UNCHANGED <<rcfg_vars, r_fp, r_theta_stack, r_i, r_state, r_calls, r_out>>
  /\ UNCHANGED not_rep

\* FProp up to the call of Recurrent
RepeatBegin ==
  /\ r_ctor = "built"
  /\ r_fp = "init"
  /\ r_fp' = "running"
  /\ r_theta_stack' = MaybeStackExtraTheta(r_theta, r_vars, r_repeat)
  /\ r_state' = ArgsToState(r_args, Len(r_args))
  /\ UNCHANGED <<rcfg_vars, r_ctor, r_i, r_calls, r_out>>
  /\ UNCHANGED not_rep

\* one step of Recurrent: _CellFn on the carried state and slice r_i of
\* theta_stack
RepeatStep ==
  /\ r_fp = "running"
  /\ r_i <= ScanLen(r_theta_stack)
  /\ LET c == CellFn(r_body, r_args, r_state, SliceAt(r_theta_stack, r_i))
     IN /\ r_calls' = Append(r_calls, [theta |-> SliceAt(r_theta_stack, r_i),
                                       ins |-> c.ins, outs |-> c.outs])
        /\ r_fp' = IF c.ok THEN "running" ELSE "failed"
        /\ r_state' = c.state1
        /\ r_i' = IF c.ok THEN r_i + 1 ELSE r_i
  /\ UNCHANGED <<rcfg_vars, r_ctor, r_theta_stack, r_out>>
  /\ UNCHANGED not_rep

\* FProp, lines 183-184, on the final state of Recurrent
RepeatReturn ==
  /\ r_fp = "running"
  /\ r_i > ScanLen(r_theta_stack)
  /\ r_fp' = "returned"
  /\ r_out' = [bare |-> Len(r_args) = 1,
               vals |-> StateToArgs(r_state, Len(r_args))]
  /\ UNCHANGED <<rcfg_vars, r_ctor, r_theta_stack, r_i, r_state, r_calls>>
  /\ UNCHANGED not_rep

\* theta.body of a body built under VariableShapePrefixContext(n): an
\* optional variable "w" with leading axis n, an optional entry "g" that is
\* no variable, and at least one tensor
RepThetas(n) ==
  LET ws == {<<>>} \cup {<<[key |-> "w", val |-> Stacked(w)]>> :
                           w \in [1..n -> Elems]}
      gs == {<<>>} \cup {<<[key |-> "g", val |-> x]>> :
                           x \in {None} \cup {Scalar(e) : e \in Elems}}
  IN {w \o g : w \in ws, g \in gs} \ {<<>>, <<[key |-> "g", val |-> None]>>}

\* the arguments of FProp: one or two, tensors or None, at least one tensor
RepArgs ==
  LET xs == {None} \cup {Scalar(e) : e \in Elems}
  IN ({<<x>> : x \in xs} \cup {<<x, y>> : x \in xs, y \in xs})
       \ {<<None>>, <<None, None>>}

RepeatIdle ==
  /\ r_ctor = "new"
  /\ r_fp = "init"
  /\ r_theta_stack = <<>>
  /\ r_i = 1
  /\ r_state = <<>>
  /\ r_calls = <<>>
  /\ r_out = [bare |-> FALSE, vals |-> <<>>]

\* the params, theta and arguments a RepeatLayer is given
RepeatInit ==
  /\ r_name \in {<<>>, <<"r">>}
  /\ r_repeat \in 0..MaxRepeat
  /\ r_body \in RepBodies
  /\ r_theta \in IF r_repeat > 0 THEN RepThetas(r_repeat) ELSE {<<>>}
  /\ r_vars = {r_theta[j].key : j \in {k \in 1..Len(r_theta) :
                                         r_theta[k].val.kind = "stack"}}
  /\ r_args \in RepArgs
  /\ RepeatIdle

RepeatNext ==
  \/ RepeatCtor
  \/ RepeatBegin
  \/ RepeatStep
  \/ RepeatReturn

\* no RepeatLayer is in play
RepeatNone ==
  /\ r_name = <<>>
  /\ r_repeat = 1
  /\ r_body = "affine"
  /\ r_vars = {}
  /\ r_theta = <<>>
  /\ r_args = <<>>
  /\ RepeatIdle

\* ------------------------------------------------------------------------
\* ParallelRepeatLayer
\* ------------------------------------------------------------------------

\* largest p.repeat of a ParallelRepeatLayer
MaxPRepeat == 2

\* the entries of the tensors of a ParallelRepeatLayer
Bits == {0, 1}

\* the body layers a ParallelRepeatLayer is built from: the bodies of the
\* RepeatLayer, "identity", and "skew", whose FProp returns one output while
\* its FPropMeta reports one shape per input
PRepBodies == RepBodies \cup {"identity", "skew"}

\* self.body.FProp(theta_i, *xs)
PRepBodyFProp(body, theta_i, xs) ==
  IF body = "identity" THEN [bare |-> Len(xs) = 1, vals |-> xs]
  ELSE IF body = "skew" THEN BodyFProp("sum", theta_i, xs)
  ELSE BodyFProp(body, theta_i, xs)

\* the shape of a value: None for None, () for a scalar, (n,) for a tensor
\* with a leading axis of n entries
ShapeOf(x) ==
  IF x = None THEN <<"none">>
  ELSE IF x.kind = "scalar" THEN <<>> ELSE <<Len(x.v)>>

\* body.FPropMeta(body.params, *input_shapes): the body maps scalars to
\* scalars
PRepBodyFPropMeta(body, input_shapes) ==
  LET n == Len(input_shapes)
      m == IF body = "sum" THEN 1 ELSE IF body = "dup" THEN n + 1 ELSE n
  IN [flops |-> n + m, out_shapes |-> [k \in 1..m |-> <<>>]]

\* arg.get_shape().as_list()[1:] of every argument
DropLeading(shapes) == [k \in 1..Len(shapes) |-> Tail(shapes[k])]

\* _InferOutShapes(args)
InferOutShapes(body, args0) ==
  PRepBodyFPropMeta(body,
    DropLeading([k \in 1..Len(args0) |-> ShapeOf(args0[k])])).out_shapes

\* ParallelRepeatLayer._CellFn run on the carried state where it has as
\* many entries as there are arguments, as RepeatLayer._CellFn is
PRepCellFnCarry(body, out_shapes, state0, inputs) ==
  LET xs == IF Len(state0) = Len(inputs.args) THEN state0 ELSE inputs.args
      fprop_outputs == ToTuple(PRepBodyFProp(body, inputs.theta, xs))
      ok == Len(fprop_outputs) = Len(out_shapes)
  IN [ok |-> ok, ins |-> xs, outs |-> fprop_outputs,
      state1 |-> IF ok THEN fprop_outputs ELSE state0]

\* ParallelRepeatLayer._CellFn(unused_theta, unused_state0, inputs); ok is
\* FALSE when `assert len(fprop_outputs) == len(out_shapes)` fails
PRepCellFn(body, out_shapes, state0, inputs) ==
  LET fprop_outputs == ToTuple(PRepBodyFProp(body, inputs.theta, inputs.args))
      ok == Len(fprop_outputs) = Len(out_shapes)
  IN [ok |-> ok, ins |-> inputs.args, outs |-> fprop_outputs,
      state1 |-> IF ok THEN fprop_outputs ELSE state0]

\* recurrent.Recurrent on inputs = NestedMap(theta, args): the inputs of
\* step i
PRepSliceAt(theta_stack, args0, i) ==
  [theta |-> SliceAt(theta_stack, i),
   args |-> [k \in 1..Len(args0) |-> Scalar(args0[k].v[i])]]

\* recurrent.Recurrent: the number of steps, the leading axis of the inputs
PRepScanLen(args0) == Len(args0[1].v)

\* recurrent.Recurrent: acc_states, the states of all steps stacked entry by
\* entry
StackStates(acc, m) ==
  [k \in 1..m |-> Stacked([i \in 1..Len(acc) |-> acc[i][k].v[1]])]

\* ParallelRepeatLayer.__init__, inherited from RepeatLayer
PRepCtor ==
  /\ pr_ctor = "new"
  /\ pr_ctor' = IF pr_name # <<>> /\ pr_repeat > 0 THEN "built" ELSE "failed"
  /\ UNCHANGED <<prcfg_vars, prfp_vars, pr_m, pr_meta>>
  /\ UNCHANGED not_prep

\* FProp up to the call of Recurrent
PRepBegin ==
  /\ pr_ctor = "built"
  /\ pr_fp = "init"
  /\ pr_fp' = "running"
  /\ pr_theta_stack' = MaybeStackExtraTheta(pr_theta, pr_vars, pr_repeat)
  /\ pr_out_shapes' = InferOutShapes(pr_body, pr_args)
  /\ pr_state' = [k \in 1..Len(InferOutShapes(pr_body, pr_args)) |-> Scalar(0)]
  /\ UNCHANGED <<pr_i, pr_acc, pr_calls, pr_out>>
  /\ UNCHANGED <<prcfg_vars, pr_ctor, pr_m, pr_meta>>
  /\ UNCHANGED not_prep

\* one step of Recurrent: _CellFn on slice pr_i of theta_stack and of args
PRepStep ==
  /\ pr_fp = "running"
  /\ pr_i <= PRepScanLen(pr_args)
  /\ LET inputs == PRepSliceAt(pr_theta_stack, pr_args, pr_i)
         c == PRepCellFn(pr_body, pr_out_shapes, pr_state, inputs)
     IN /\ pr_calls' = Append(pr_calls, [theta |-> inputs.theta,
                                         ins |-> c.ins, outs |-> c.outs])
        /\ pr_fp' = IF c.ok THEN "running" ELSE "failed"
        /\ pr_state' = c.state1
        /\ pr_acc' = IF c.ok THEN Append(pr_acc, c.state1) ELSE pr_acc
        /\ pr_i' = IF c.ok THEN pr_i + 1 ELSE pr_i
  /\ UNCHANGED <<pr_theta_stack, pr_out_shapes, pr_out>>
  /\ UNCHANGED <<prcfg_vars, pr_ctor, pr_m, pr_meta>>
  /\ UNCHANGED not_prep

\* output_tensors[0] if len(args) == 1 else tuple(output_tensors)
PRepOut(output_tensors, nargs) ==
  IF nargs = 1 THEN [bare |-> TRUE, vals |-> <<output_tensors[1]>>]
  ELSE [bare |-> FALSE, vals |-> output_tensors]

\* FProp, lines 349-354, on acc_states
PRepReturn ==
  /\ pr_fp = "running"
  /\ pr_i > PRepScanLen(pr_args)
  /\ pr_fp' = "returned"
  /\ pr_out' = PRepOut(StackStates(pr_acc, Len(pr_out_shapes)), Len(pr_args))
  /\ UNCHANGED <<pr_theta_stack, pr_out_shapes, pr_i, pr_state, pr_acc,
                 pr_calls>>
  /\ UNCHANGED <<prcfg_vars, pr_ctor, pr_m, pr_meta>>
  /\ UNCHANGED not_prep

\* ParallelRepeatLayer.FPropMeta on the shapes of the arguments
PRepMeta ==
  /\ pr_ctor = "built"
  /\ pr_fp \in {"returned", "failed"}
  /\ pr_m = "init"
  /\ pr_m' = "returned"
  /\ LET shapes == [k \in 1..Len(pr_args) |-> ShapeOf(pr_args[k])]
         meta == PRepBodyFPropMeta(pr_body, DropLeading(shapes))
     IN pr_meta' = [flops |-> meta.flops * pr_repeat,
                    out_shapes |-> [k \in 1..Len(meta.out_shapes) |->
                                      <<pr_repeat>> \o meta.out_shapes[k]]]
  /\ UNCHANGED <<prcfg_vars, pr_ctor, prfp_vars>>
  /\ UNCHANGED not_prep

\* theta.body of a body built under VariableShapePrefixContext(n): an
\* optional variable "w" with leading axis n and an optional entry "g" that
\* is no variable
PRepThetas(n) ==
  LET ws == {<<>>} \cup {<<[key |-> "w", val |-> Stacked(w)]>> :
                           w \in [1..n -> Bits]}
      gs == {<<>>} \cup {<<[key |-> "g", val |-> x]>> :
                           x \in {None} \cup {Scalar(e) : e \in Bits}}
  IN {w \o g : w \in ws, g \in gs}

\* the arguments of FProp: one or two tensors with a leading axis of n
PRepArgs(n) ==
  LET xs == {Stacked(x) : x \in [1..n -> Bits]}
  IN {<<x>> : x \in xs} \cup {<<x, y>> : x \in xs, y \in xs}

PRepIdle ==
  /\ pr_ctor = "new"
  /\ pr_fp = "init"
  /\ pr_theta_stack = <<>>
  /\ pr_out_shapes = <<>>
  /\ pr_i = 1
  /\ pr_state = <<>>
  /\ pr_acc = <<>>
  /\ pr_calls = <<>>
  /\ pr_out = [bare |-> FALSE, vals |-> <<>>]
  /\ pr_m = "init"
  /\ pr_meta = [flops |-> 0, out_shapes |-> <<>>]

\* the params, theta and arguments a ParallelRepeatLayer is given
PRepInit ==
  /\ pr_name \in {<<>>, <<"p">>}
  /\ pr_repeat \in 0..MaxPRepeat
  /\ pr_body \in PRepBodies
  /\ pr_theta \in PRepThetas(pr_repeat)
  /\ pr_vars = {pr_theta[j].key : j \in {k \in 1..Len(pr_theta) :
                                           pr_theta[k].val.kind = "stack"}}
  /\ pr_args \in PRepArgs(pr_repeat)
  /\ PRepIdle

PRepNext ==
  \/ PRepCtor
  \/ PRepBegin
  \/ PRepStep
  \/ PRepReturn
  \/ PRepMeta

\* no ParallelRepeatLayer is in play
PRepNone ==
  /\ pr_name = <<>>
  /\ pr_repeat = 1
  /\ pr_body = "identity"
  /\ pr_vars = {}
  /\ pr_theta = <<>>
  /\ pr_args = <<>>
  /\ PRepIdle

\* ------------------------------------------------------------------------
\* SoftCondLayer
\* ------------------------------------------------------------------------

\* largest p.num_experts of a SoftCondLayer
MaxExperts == 2

\* largest p.cond_dim of a SoftCondLayer
MaxCondDim == 1

\* tensors of a SoftCondLayer hold fixed-point numbers: the integer n stands
\* for n / GateScale, so GateScale stands for 1.0
GateScale == 4

\* the sum of the numbers xs
RECURSIVE SumOf(_)
SumOf(xs) == IF xs = <<>> THEN 0 ELSE Head(xs) + SumOf(Tail(xs))

\* tf.nn.sigmoid(z) for a logit z counted in steps of the fixed-point grid:
\* monotone, and saturating at 0.0 and 1.0 as floating point does
Sigmoid(z) ==
  LET y == z + (GateScale \div 2)
  IN IF y < 0 THEN 0 ELSE IF y > GateScale THEN GateScale ELSE y

\* tf.reduce_sum(tf.reshape(inputs, [-1, cond_dim]), 0)
PerExampleEmb(rows, cond_dim) ==
  [d \in 1..cond_dim |-> SumOf([r \in 1..Len(rows) |-> rows[r][d]])]

\* tf.einsum('i,ij->j', emb, w)
EinsumVecMat(emb, w, n) ==
  [j \in 1..n |-> SumOf([d \in 1..Len(emb) |-> emb[d] * w[d][j]])]

\* _GetExpertDist(theta, inputs)
GetExpertDist(w, rows, cond_dim, n) ==
  LET logits == EinsumVecMat(PerExampleEmb(rows, cond_dim), w, n)
  IN [j \in 1..n |-> Sigmoid(logits[j])]

\* tf.einsum('i,i...->...', expert_dist, value), a fixed-point product
EinsumBlend(expert_dist, value) ==
  Scalar(SumOf([i \in 1..Len(expert_dist) |->
                  (expert_dist[i] * value.v[i]) \div GateScale]))

\* weighted_theta that takes the first expert's copy of every variable
WeightedThetaFirst(th, var_set, expert_dist) ==
  [j \in 1..Len(th) |->
     IF th[j].key \in var_set /\ th[j].val # None
     THEN [key |-> th[j].key, val |-> Scalar(th[j].val.v[1])]
     ELSE th[j]]

\* FProp, lines 263-270: weighted_theta
WeightedTheta(th, var_set, expert_dist) ==
  [j \in 1..Len(th) |->
     IF th[j].key \in var_set /\ th[j].val # None
     THEN [key |-> th[j].key, val |-> EinsumBlend(expert_dist, th[j].val)]
     ELSE th[j]]

\* self.body.FProp(th, inputs): the sum of the parameters and of the inputs
SoftBodyFProp(th, rows) ==
  TensorSum([j \in 1..Len(th) |-> th[j].val])
    + GateScale * SumOf([r \in 1..Len(rows) |-> SumOf(rows[r])])

\* SoftCondLayer.__init__
SoftCtor ==
  /\ sc_ctor = "new"
  /\ sc_ctor' = IF sc_name # <<>> /\ sc_experts # 0 /\ sc_cond_dim # 0
                THEN "built" ELSE "failed"
  /\ UNCHANGED <<sccfg_vars, sc_fp, sc_dist, sc_calls, sc_out>>
  /\ UNCHANGED not_soft

\* SoftCondLayer.FProp
SoftFProp ==
  /\ sc_ctor = "built"
  /\ sc_fp = "init"
  /\ sc_fp' = "returned"
  /\ LET expert_dist == GetExpertDist(sc_w, sc_inputs, sc_cond_dim, sc_experts)
         weighted_theta == WeightedTheta(sc_theta, sc_vars, expert_dist)
     IN /\ sc_dist' = expert_dist
        /\ sc_calls' = Append(sc_calls, [theta |-> weighted_theta,
                                         ins |-> sc_inputs])
        /\ sc_out' = SoftBodyFProp(weighted_theta, sc_inputs)
  /\ UNCHANGED <<sccfg_vars, sc_ctor>>
  /\ UNCHANGED not_soft

\* theta.body of a body built under VariableShapePrefixContext(n): an
\* optional variable "w" with leading axis n, whose entries are 0.0 or 1.0,
\* and an optional entry "g" that is no variable
SoftThetas(n) ==
  LET ws == {<<>>} \cup {<<[key |-> "w", val |-> Stacked(w)]>> :
                           w \in [1..n -> {0, GateScale}]}
      gs == {<<>>, <<[key |-> "g", val |-> None]>>,
             <<[key |-> "g", val |-> Scalar(GateScale)]>>}
  IN {w \o g : w \in ws, g \in gs}

SoftIdle ==
  /\ sc_ctor = "new"
  /\ sc_fp = "init"
  /\ sc_dist = <<>>
  /\ sc_calls = <<>>
  /\ sc_out = 0

\* the params, theta and inputs a SoftCondLayer is given: one or two rows
\* of inputs with entries 0 and 1, a mixing matrix with entries -1 and 1
SoftInit ==
  /\ sc_name \in {<<>>, <<"c">>}
  /\ sc_experts \in 0..MaxExperts
  /\ sc_cond_dim \in 0..MaxCondDim
  /\ sc_w \in [1..sc_cond_dim -> [1..sc_experts -> {-1, 1}]]
  /\ sc_theta \in SoftThetas(sc_experts)
  /\ sc_vars = {sc_theta[j].key : j \in {k \in 1..Len(sc_theta) :
                                           sc_theta[k].val.kind = "stack"}}
  /\ sc_inputs \in SeqsUpTo([1..sc_cond_dim -> {0, 1}], 2) \ {<<>>}
  /\ SoftIdle

SoftNext ==
  \/ SoftCtor
  \/ SoftFProp

\* no SoftCondLayer is in play
SoftNone ==
  /\ sc_name = <<>>
  /\ sc_experts = 1
  /\ sc_cond_dim = 1
  /\ sc_w = <<>>
  /\ sc_vars = {}
  /\ sc_theta = <<>>
  /\ sc_inputs = <<>>
  /\ SoftIdle

\* ------------------------------------------------------------------------
\* BatchParallelLayer
\* ------------------------------------------------------------------------

\* the largest cluster.num_devices_per_split and the largest batch
MaxWorkers == 2

MaxBatch == 4

\* a tensor is the sequence of its rows along axis 0, a row one number
Tensor(rows) == [kind |-> "tensor", rows |-> rows]

\* the sub layers: "neg" returns one tensor, computed row by row; "total"
\* one tensor, every row the sum over the rows it was given plus theta;
\* "pair" the tuple of its first and its last argument; "one" a tuple of
\* one tensor
BatchSubs == {"neg", "total", "pair", "one"}

RECURSIVE RowSum(_)
RowSum(rows) ==
  IF rows = <<>> THEN 0 ELSE Head(rows) + RowSum(Tail(rows))

\* self.sub.FProp(theta.sub, *xs): a bare tensor or a tuple of tensors
BatchSubFProp(sub, th, xs) ==
  CASE sub = "neg" ->
         [kind |-> "tensor",
          vals |-> <<[r \in 1..Len(xs[1]) |-> 1 - xs[1][r]]>>]
    [] sub = "total" ->
         [kind |-> "tensor",
          vals |-> <<[r \in 1..Len(xs[1]) |-> RowSum(xs[1]) + th]>>]
    [] sub = "pair" ->
         [kind |-> "tuple", vals |-> <<xs[1], xs[Len(xs)]>>]
    [] OTHER ->
         [kind |-> "tuple", vals |-> <<xs[1]>>]

\* tf.split(x, num, axis=0): num blocks of equal size, in order; an error
\* where the batch does not divide
TfSplit(x, num) ==
  IF Len(x) % num # 0 THEN [ok |-> FALSE, parts |-> <<>>]
  ELSE LET size == Len(x) \div num
       IN [ok |-> TRUE,
           parts |-> [s \in 1..num |->
                        [r \in 1..size |-> x[(s - 1) * size + r]]]]

\* py_utils.SplitRecursively(list(args), num, axis=0): every tensor split,
\* then one list per shard holding that shard's block of every tensor
SplitRecursively(xs, num) ==
  LET splits == [a \in 1..Len(xs) |-> TfSplit(xs[a], num)]
  IN IF \E a \in 1..Len(xs) : ~splits[a].ok
     THEN [ok |-> FALSE, parts |-> <<>>]
     ELSE [ok |-> TRUE,
           parts |-> [s \in 1..num |->
                        [a \in 1..Len(xs) |-> splits[a].parts[s]]]]

\* tf.concat(xs, axis=0)
RECURSIVE TfConcat(_)
TfConcat(xs) ==
  IF xs = <<>> THEN <<>> ELSE Head(xs) \o TfConcat(Tail(xs))

\* py_utils.ConcatRecursively(outs, axis=0): a list of lists is
\* concatenated position by position and gives a list, a list of tensors
\* gives a tensor
ConcatRecursively(outs) ==
  IF outs[1].kind = "list"
  THEN [kind |-> "list",
        vals |-> [p \in 1..Len(outs[1].vals) |->
                    TfConcat([s \in 1..Len(outs) |-> outs[s].vals[p]])]]
  ELSE [kind |-> "tensor",
        vals |-> <<TfConcat([s \in 1..Len(outs) |-> outs[s].vals[1]])>>]

\* outs += [ys] the other way round: the shard put in front
AppendOutFront(outs, ys) ==
  <<[kind |-> IF ys.kind = "tuple" THEN "list" ELSE "tensor",
     vals |-> ys.vals]>> \o outs

\* outs += [list(ys)] for a tuple, outs += [ys] for a single tensor
AppendOut(outs, ys) ==
  Append(outs, [kind |-> IF ys.kind = "tuple" THEN "list" ELSE "tensor",
                vals |-> ys.vals])

\* BatchParallelLayer.__init__
BatchCtor ==
  /\ bp_ctor = "new"
  /\ bp_ctor' = IF bp_name # <<>> THEN "built" ELSE "failed"
  /\ UNCHANGED <<bpcfg_vars, bp_fp, bp_inps, bp_i, bp_outs, bp_calls,
                 bp_out>>
  /\ UNCHANGED not_batch

\* BatchParallelLayer.FProp up to the loop over the shards
BatchBegin ==
  /\ bp_ctor = "built"
  /\ bp_fp = "init"
  /\ LET xs == [a \in 1..Len(bp_args) |-> bp_args[a].rows]
     IN IF \E a \in 1..Len(bp_args) : bp_args[a].kind # "tensor"
        THEN /\ bp_fp' = "failed"
             /\ UNCHANGED <<bp_inps, bp_calls, bp_out>>
        ELSE IF bp_num = 1
        THEN /\ bp_fp' = "returned"
             /\ bp_calls' = Append(bp_calls, [theta |-> bp_theta, xs |-> xs])
             /\ bp_out' = BatchSubFProp(bp_sub, bp_theta, xs)
             /\ UNCHANGED bp_inps
        ELSE LET inps == SplitRecursively(xs, bp_num)
             IN IF ~inps.ok
                THEN /\ bp_fp' = "failed"
                     /\ UNCHANGED <<bp_inps, bp_calls, bp_out>>
                ELSE /\ bp_fp' = "loop"
                     /\ bp_inps' = inps.parts
                     /\ UNCHANGED <<bp_calls, bp_out>>
  /\ UNCHANGED <<bpcfg_vars, bp_ctor, bp_i, bp_outs>>
  /\ UNCHANGED not_batch

\* one iteration of "for i, xs in enumerate(inps)"
BatchShard ==
  /\ bp_fp = "loop"
  /\ bp_i < Len(bp_inps)
  /\ LET xs == bp_inps[bp_i + 1]
         ys == BatchSubFProp(bp_sub, bp_theta, xs)
     IN /\ bp_calls' = Append(bp_calls, [theta |-> bp_theta, xs |-> xs])
        /\ bp_outs' = AppendOut(bp_outs, ys)
  /\ bp_i' = bp_i + 1
  /\ UNCHANGED <<bpcfg_vars, bp_ctor, bp_fp, bp_inps, bp_out>>
  /\ UNCHANGED not_batch

\* BatchParallelLayer.FProp after the loop
BatchReturn ==
  /\ bp_fp = "loop"
  /\ bp_i = Len(bp_inps)
  /\ bp_fp' = "returned"
  /\ LET ret == ConcatRecursively(bp_outs)
     IN bp_out' = IF ret.kind = "list"
                  THEN [kind |-> "tuple", vals |-> ret.vals]
                  ELSE ret
  /\ UNCHANGED <<bpcfg_vars, bp_ctor, bp_inps, bp_i, bp_outs, bp_calls>>
  /\ UNCHANGED not_batch

\* the arguments of FProp: one or two tensors with the same batch, rows 0
\* or 1, or one argument that is no tensor
BatchArgs ==
  UNION {{<<Tensor(x)>> : x \in [1..b -> Bits]} \cup
         {<<Tensor(x), Tensor(y)>> : x, y \in [1..b -> Bits]} :
         b \in 1..MaxBatch}
    \cup {<<[kind |-> "list", rows |-> <<0>>]>>}

BatchIdle ==
  /\ bp_ctor = "new"
  /\ bp_fp = "init"
  /\ bp_inps = <<>>
  /\ bp_i = 0
  /\ bp_outs = <<>>
  /\ bp_calls = <<>>
  /\ bp_out = [kind |-> "tensor", vals |-> <<>>]

\* the params, cluster, theta and arguments a BatchParallelLayer is given
BatchInit ==
  /\ bp_name \in {<<>>, <<"b">>}
  /\ bp_sub \in BatchSubs
  /\ bp_num \in 1..MaxWorkers
  /\ bp_theta \in Bits
  /\ bp_args \in BatchArgs
  /\ BatchIdle

BatchNext ==
  \/ BatchCtor
  \/ BatchBegin
  \/ BatchShard
  \/ BatchReturn

\* no BatchParallelLayer is in play
BatchNone ==
  /\ bp_name = <<>>
  /\ bp_sub = "neg"
  /\ bp_num = 1
  /\ bp_theta = 0
  /\ bp_args = <<>>
  /\ BatchIdle

\* ------------------------------------------------------------------------
\* ArgIndexLayer
\* ------------------------------------------------------------------------

\* the largest number of indices and of arguments
MaxIdx == 2

MaxArgs == 2

\* "assert 0 <= i <= len(args)"
IndexAsserted(i, xs) == 0 <= i /\ i <= Len(xs)

\* args[i] of a tuple: i counts from 0, a negative i from the end;
\* IndexError outside -len(args) .. len(args) - 1
Subscriptable(i, xs) == -Len(xs) <= i /\ i < Len(xs)

Subscript(i, xs) == IF i >= 0 THEN xs[i + 1] ELSE xs[Len(xs) + i + 1]

\* [args[i] for i in p.idx] as far as it gets: the entries selected before
\* the first IndexError
RECURSIVE Selected(_, _)
Selected(ix, xs) ==
  IF ix = <<>> \/ ~Subscriptable(Head(ix), xs) THEN <<>>
  ELSE <<Subscript(Head(ix), xs)>> \o Selected(Tail(ix), xs)

\* ArgIndexLayer.__init__
ArgIndexCtor ==
  /\ ai_ctor = "new"
  /\ ai_ctor' = IF ai_name # <<>> /\ ai_idx # <<>> THEN "built" ELSE "failed"
  /\ UNCHANGED <<aicfg_vars, ai_fp, ai_r, ai_out>>
  /\ UNCHANGED not_argidx

\* ArgIndexLayer.FProp
ArgIndexFProp ==
  /\ ai_ctor = "built"
  /\ ai_fp = "init"
  /\ IF ai_idx = <<>>
        \/ \E k \in 1..Len(ai_idx) : ~IndexAsserted(ai_idx[k], ai_args)
     THEN /\ ai_fp' = "assert"
          /\ UNCHANGED <<ai_r, ai_out>>
     ELSE LET r == Selected(ai_idx, ai_args)
          IN /\ ai_r' = r
             /\ IF Len(r) < Len(ai_idx)
                THEN /\ ai_fp' = "index"
                     /\ UNCHANGED ai_out
                ELSE /\ ai_fp' = "returned"
                     /\ ai_out' = [bare |-> ~(Len(r) > 1), vals |-> r]
  /\ UNCHANGED <<aicfg_vars, ai_ctor>>
  /\ UNCHANGED not_argidx

ArgIndexIdle ==
  /\ ai_ctor = "new"
  /\ ai_fp = "init"
  /\ ai_r = <<>>
  /\ ai_out = [bare |-> FALSE, vals |-> <<>>]

\* the params and arguments an ArgIndexLayer is given
ArgIndexInit ==
  /\ ai_name \in {<<>>, <<"i">>}
  /\ ai_idx \in SeqsUpTo(-1..MaxArgs, MaxIdx)
  /\ ai_args \in SeqsUpTo({"x", "y"}, MaxArgs)
  /\ ArgIndexIdle

ArgIndexNext ==
  \/ ArgIndexCtor
  \/ ArgIndexFProp

\* no ArgIndexLayer is in play
ArgIndexNone ==
  /\ ai_name = <<>>
  /\ ai_idx = <<>>
  /\ ai_args = <<>>
  /\ ArgIndexIdle

\* ------------------------------------------------------------------------
\* FirstNLayer
\* ------------------------------------------------------------------------

\* the largest p.n and the largest number of arguments
MaxN == 2

MaxFirstArgs == 3

\* args[:n] of a tuple: n counts from the end when negative
SliceTo(xs, n) ==
  LET stop == IF n >= 0 THEN n ELSE Len(xs) + n
      m == IF stop < 0 THEN 0 ELSE IF stop > Len(xs) THEN Len(xs) ELSE stop
  IN SubSeq(xs, 1, m)

\* the shape of an argument
FirstNShape(x) == IF x = "x" THEN <<2>> ELSE <<3, 2>>

\* FirstNLayer.__init__
FirstNCtor ==
  /\ fn_ctor = "new"
  /\ fn_ctor' = IF fn_name # <<>> /\ fn_n > 0 THEN "built" ELSE "failed"
  /\ UNCHANGED <<fncfg_vars, fn_fp, fn_out, fn_m, fn_meta>>
  /\ UNCHANGED not_firstn

\* FirstNLayer.FProp
FirstNFProp ==
  /\ fn_ctor = "built"
  /\ fn_fp = "init"
  /\ IF ~(Len(fn_args) >= fn_n)
     THEN /\ fn_fp' = "failed"
          /\ UNCHANGED fn_out
     ELSE /\ fn_fp' = "returned"
          /\ fn_out' = IF fn_n > 1
                       THEN [bare |-> FALSE, vals |-> SliceTo(fn_args, fn_n)]
                       ELSE [bare |-> TRUE, vals |-> <<fn_args[1]>>]
  /\ UNCHANGED <<fncfg_vars, fn_ctor, fn_m, fn_meta>>
  /\ UNCHANGED not_firstn

\* FirstNLayer.FPropMeta, a classmethod: it needs p only
FirstNFPropMeta ==
  /\ fn_m = "init"
  /\ IF fn_n > 1
     THEN /\ fn_m' = "returned"
          /\ fn_meta' = [flops |-> 0, out_shapes |-> SliceTo(fn_shapes, fn_n)]
     ELSE IF fn_shapes = <<>>
     THEN /\ fn_m' = "failed"
          /\ UNCHANGED fn_meta
     ELSE /\ fn_m' = "returned"
          /\ fn_meta' = [flops |-> 0, out_shapes |-> <<fn_shapes[1]>>]
  /\ UNCHANGED <<fncfg_vars, fn_ctor, fn_fp, fn_out>>
  /\ UNCHANGED not_firstn

FirstNIdle ==
  /\ fn_ctor = "new"
  /\ fn_fp = "init"
  /\ fn_out = [bare |-> FALSE, vals |-> <<>>]
  /\ fn_m = "init"
  /\ fn_meta = [flops |-> 0, out_shapes |-> <<>>]

\* the params and arguments a FirstNLayer is given
FirstNInit ==
  /\ fn_name \in {<<>>, <<"f">>}
  /\ fn_n \in -1..MaxN
  /\ fn_args \in SeqsUpTo({"x", "y"}, MaxFirstArgs)
  /\ fn_shapes = [k \in 1..Len(fn_args) |-> FirstNShape(fn_args[k])]
  /\ FirstNIdle

FirstNNext ==
  \/ FirstNCtor
  \/ FirstNFProp
  \/ FirstNFPropMeta

\* no FirstNLayer is in play
FirstNNone ==
  /\ fn_name = <<>>
  /\ fn_n = 1
  /\ fn_args = <<>>
  /\ fn_shapes = <<>>
  /\ FirstNIdle

\* ------------------------------------------------------------------------
\* ParallelLayer
\* ------------------------------------------------------------------------

\* the largest number of sub layers, the largest flops of one, and the
\* largest number of FPropMeta calls followed
MaxParSub == 2

MaxParFlops == 2

MaxMetaCalls == 3

\* sub.cls.FPropMeta(sub, *args) of the k-th sub layer: a record of its own
ParSubMeta(sub, k) == [flops |-> sub[k], out_shapes |-> <<<<k>>>>]

\* "total += meta.flops" and "outputs.append(meta.out_shapes)" over p.sub
RECURSIVE ParTotal(_, _)
ParTotal(sub, k) ==
  IF k = 0 THEN 0 ELSE ParTotal(sub, k - 1) + ParSubMeta(sub, k).flops

ParOutputs(sub) == [k \in 1..Len(sub) |-> ParSubMeta(sub, k).out_shapes]

\* the out_shapes merge_meta computes: those of all sub layers in a row
RECURSIVE ParFlat(_)
ParFlat(outputs) ==
  IF outputs = <<>> THEN <<>> ELSE Head(outputs) \o ParFlat(Tail(outputs))

\* p.merge_meta(outputs): the heap after the call and the identity of the
\* record returned; a shared record is created by the first call
MergeMeta(mm, heap, outputs) ==
  IF mm.shared /\ heap # <<>>
  THEN [heap |-> heap, rec |-> 1]
  ELSE [heap |-> Append(heap, [flops |-> mm.flops,
                               out_shapes |-> ParFlat(outputs)]),
        rec |-> Len(heap) + 1]

\* ParallelLayer.__init__
ParCtor ==
  /\ pl_ctor = "new"
  /\ pl_ctor' = IF pl_name # <<>> THEN "built" ELSE "failed"
  /\ UNCHANGED <<plcfg_vars, pl_heap, pl_returns>>
  /\ UNCHANGED not_par

\* ParallelLayer.FPropMeta, a classmethod: it needs p only
ParFPropMeta ==
  /\ Len(pl_returns) < MaxMetaCalls
  /\ LET flops == ParTotal(pl_sub, Len(pl_sub))
         got == MergeMeta(pl_merge, pl_heap, ParOutputs(pl_sub))
         meta == got.heap[got.rec]
     IN /\ pl_heap' = [got.heap EXCEPT ![got.rec].flops = meta.flops + flops]
        /\ pl_returns' = Append(pl_returns,
                                [rec |-> got.rec, given |-> meta.flops,
                                 flops |-> meta.flops + flops])
  /\ UNCHANGED <<plcfg_vars, pl_ctor>>
  /\ UNCHANGED not_par

ParIdle ==
  /\ pl_ctor = "new"
  /\ pl_heap = <<>>
  /\ pl_returns = <<>>

\* the params a ParallelLayer is given
ParInit ==
  /\ pl_name \in {<<>>, <<"p">>}
  /\ pl_sub \in SeqsUpTo(0..MaxParFlops, MaxParSub)
  /\ pl_merge \in [flops : {0, 1}, shared : BOOLEAN]
  /\ ParIdle

ParNext ==
  \/ ParCtor
  \/ ParFPropMeta

\* no ParallelLayer is in play
ParNone ==
  /\ pl_name = <<>>
  /\ pl_sub = <<>>
  /\ pl_merge = [flops |-> 0, shared |-> FALSE]
  /\ ParIdle

\* ------------------------------------------------------------------------
\* Specifications
\* ------------------------------------------------------------------------

\* a GraphLayer walked by FProp and FPropMeta, no other layer in play
GraphOnly == GraphInit /\ SeqNone /\ RepeatNone /\ PRepNone /\ SoftNone /\
             BatchNone /\ ArgIndexNone /\ FirstNNone /\ ParNone

SpecGraph == GraphOnly /\ [][GraphNext]_vars

\* a GraphLayer under construction, no other layer in play
CtorOnly == CtorInit /\ SeqNone /\ RepeatNone /\ PRepNone /\ SoftNone /\
            BatchNone /\ ArgIndexNone /\ FirstNNone /\ ParNone

SpecCtor == CtorOnly /\ [][CtorNext]_vars

\* a SequentialLayer, no other layer in play
SeqOnly == SeqInit /\ GraphNone /\ RepeatNone /\ PRepNone /\ SoftNone /\
           BatchNone /\ ArgIndexNone /\ FirstNNone /\ ParNone

SpecSeq == SeqOnly /\ [][SeqNext]_vars

\* a RepeatLayer, no other layer in play
RepeatOnly == RepeatInit /\ GraphNone /\ SeqNone /\ PRepNone /\ SoftNone /\
              BatchNone /\ ArgIndexNone /\ FirstNNone /\ ParNone

SpecRepeat == RepeatOnly /\ [][RepeatNext]_vars

\* a ParallelRepeatLayer, no other layer in play
PRepOnly == PRepInit /\ GraphNone /\ SeqNone /\ RepeatNone /\ SoftNone /\
            BatchNone /\ ArgIndexNone /\ FirstNNone /\ ParNone

SpecPRep == PRepOnly /\ [][PRepNext]_vars

\* a SoftCondLayer, no other layer in play
SoftOnly == SoftInit /\ GraphNone /\ SeqNone /\ RepeatNone /\ PRepNone /\
            BatchNone /\ ArgIndexNone /\ FirstNNone /\ ParNone

SpecSoft == SoftOnly /\ [][SoftNext]_vars

\* a BatchParallelLayer, no other layer in play
BatchOnly == BatchInit /\ GraphNone /\ SeqNone /\ RepeatNone /\ PRepNone /\
             SoftNone /\ ArgIndexNone /\ FirstNNone /\ ParNone

SpecBatch == BatchOnly /\ [][BatchNext]_vars

\* an ArgIndexLayer, no other layer in play
ArgIndexOnly == ArgIndexInit /\ GraphNone /\ SeqNone /\ RepeatNone /\
                PRepNone /\ SoftNone /\ BatchNone /\ FirstNNone /\ ParNone

SpecArgIndex == ArgIndexOnly /\ [][ArgIndexNext]_vars

\* a FirstNLayer, no other layer in play
FirstNOnly == FirstNInit /\ GraphNone /\ SeqNone /\ RepeatNone /\
              PRepNone /\ SoftNone /\ BatchNone /\ ArgIndexNone /\ ParNone

SpecFirstN == FirstNOnly /\ [][FirstNNext]_vars

\* a ParallelLayer, no other layer in play
ParOnly == ParInit /\ GraphNone /\ SeqNone /\ RepeatNone /\ PRepNone /\
           SoftNone /\ BatchNone /\ ArgIndexNone /\ FirstNNone

SpecPar == ParOnly /\ [][ParNext]_vars

\* ------------------------------------------------------------------------
\* Properties of the GraphLayer
\* ------------------------------------------------------------------------

Ident(n) == [j \in 1..n |-> j]

RECURSIVE SumSeq(_)
SumSeq(xs) == IF xs = <<>> THEN 0 ELSE Head(xs) + SumSeq(Tail(xs))

\* a walk that is about to run a stretch of its code
Stepping(st) == st \in {"init", "running"}

\* every binding of nt is still the binding in nt2
Preserved(nt, nt2) ==
  \A q \in DOMAIN nt : q \in DOMAIN nt2 /\ nt2[q] = nt[q]

\* the AddNamedTensor calls recorded in ops, made on namespace nt: a call on
\* a bound name fails and fails the walk, and no name is added twice
AddsOnce(nt, ops, st2) ==
  \A k \in 1..Len(ops) :
    ops[k].op = "add" =>
      /\ PathOf(ops[k].path) \in DOMAIN nt => ~ops[k].ok /\ st2 = "failed"
      /\ ops[k].ok =>
           \A j \in 1..(k - 1) :
             ops[j].op = "add" => ops[j].path # ops[k].path

\* C1: in a run of FProp or of FPropMeta a name is written into the
\* namespace at most once: AddNamedTensor on a name that is bound fails the
\* run, and a binding, once made, is never replaced.
C1_WriteOnce ==
  [][ /\ Stepping(fp_state) =>
           /\ Preserved(named_tensors, named_tensors')
           /\ AddsOnce(named_tensors, fp_ops', fp_state')
      /\ Stepping(m_state) =>
           /\ Preserved(m_named_tensors, m_named_tensors')
           /\ AddsOnce(m_named_tensors, m_ops', m_state') ]_vars

\* C1 witness: the second sub-layer writes a name that is already bound
C1_Witness ==
  /\ fp_state = "failed"
  /\ fp_err = "add"
  /\ fp_calls = <<1, 2>>
  /\ \E k \in 1..Len(fp_ops) :
       /\ fp_ops[k].op = "add"
       /\ ~fp_ops[k].ok
       /\ PathOf(fp_ops[k].path) \in DOMAIN named_tensors

\* the GetNamedTensor calls recorded in ops, made on namespace nt by the
\* iteration for child i: a call succeeds exactly when the name is bound,
\* what it yields was produced by an argument or an earlier child, and a
\* failed call fails the walk
GetsBound(nt, ops, st2, i) ==
  \A k \in 1..Len(ops) :
    ops[k].op = "get" =>
      /\ ops[k].ok <=> PathOf(ops[k].path) \in DOMAIN nt
      /\ ~ops[k].ok => st2 = "failed"
      /\ ops[k].ok =>
           \A r \in DOMAIN Subtree(nt, PathOf(ops[k].path)) :
             Subtree(nt, PathOf(ops[k].path))[r].by < i

\* C2: every name FProp or FPropMeta reads resolves to a value bound earlier
\* in the run by an argument or an earlier sub-layer; a read of an unbound
\* name fails the run: the sub-layer is not invoked and nothing is returned.
C2_ReadBeforeWrite ==
  [][ /\ fp_state = "running" =>
           /\ GetsBound(named_tensors, fp_ops', fp_state', idx)
           /\ fp_state' = "failed" /\ fp_err' \in {"get", "out"} =>
                fp_calls' = fp_calls /\ layer_out' = NoOut
      /\ m_state = "running" =>
           /\ GetsBound(m_named_tensors, m_ops', m_state', idx)
           /\ m_state' = "failed" /\ m_err' \in {"get", "out"} =>
                m_calls' = m_calls /\ m_out' = NoMeta ]_vars

\* C2 witness: the second sub-layer reads a name nothing has bound
C2_Witness ==
  /\ fp_state = "failed"
  /\ fp_err = "get"
  /\ fp_calls = <<1>>
  /\ m_state = "failed"
  /\ m_err = "get"
  /\ \E k \in 1..Len(fp_ops) : fp_ops[k].op = "get" /\ ~fp_ops[k].ok

\* C3 as stated: a namespace error is raised before any sub-layer's FProp
\* has been invoked.
C3_ErrorsPrecedeCalls ==
  fp_state = "failed" /\ fp_err \in {"bind", "get", "add", "out"}
    => fp_calls = <<>>

\* C3 amended: a namespace error is raised when the walk reaches it: an
\* unresolved read of sub-layer j after exactly the sub-layers 1..j-1 have
\* been invoked, a duplicate write of sub-layer j after 1..j have been, an
\* unresolved output endpoint after all have been; only a clash among the
\* input endpoints precedes every invocation.
C3_ErrorsOnArrival ==
  /\ fp_err = "bind" => fp_calls = <<>>
  /\ fp_err = "get" => fp_calls = Ident(idx - 2)
  /\ fp_err = "add" => fp_calls = Ident(idx - 1)
  /\ fp_err = "out" => fp_calls = Ident(nsub)

\* C3 witness: a duplicate write of the second sub-layer
C3_Witness ==
  /\ fp_state = "failed"
  /\ fp_err = "add"
  /\ idx = 3
  /\ Len(fp_calls) = 2

HasArrow(s) == \E k \in 1..(Len(s) - 1) : SubSeq(s, k, k + 1) = Arrow

WellFormedConfig ==
  /\ \A k \in 1..Len(input_endpoints) : IdRegexMatch(input_endpoints[k])
  /\ \A k \in 1..Len(output_endpoints) : IdRegexMatch(output_endpoints[k])
  /\ \A j \in 1..Len(p_sub) : ParseSignature(p_sub[j].sig).ok

Bound(nt, name) == nt[PathOf(name)]

\* C5: FProp binds the i-th argument to the i-th input endpoint (failing on
\* a different number of arguments), invokes every sub-layer once, in order,
\* on the values bound to its input names, binds what it yields to its output
\* names, and returns the values of the output endpoints in order, bare when
\* there is one.
C5_ForwardResult ==
  [][ /\ fp_state = "init" /\ fp_state' = "running" =>
           /\ Len(args) = Len(input_endpoints)
           /\ \A k \in 1..Len(args) :
                Subtree(named_tensors', PathOf(input_endpoints[k]))
                  = ArgTree(args[k], k)
      /\ fp_state = "init" /\ Len(args) # Len(input_endpoints) =>
           fp_state' = "failed"
      /\ fp_state = "running" /\ fp_calls' # fp_calls =>
           /\ fp_calls' = Append(fp_calls, idx)
           /\ LET sg == Parsed[sig']
              IN /\ input_args' =
                      [k \in 1..Len(sg.i_tensors) |->
                         Subtree(named_tensors, PathOf(sg.i_tensors[k]))]
                 /\ fp_state' = "running" =>
                      \A k \in 1..Len(sg.o_tensors) :
                        Bound(named_tensors', sg.o_tensors[k])
                          = ChOut(idx, arity', Len(sg.o_tensors))[k][<<>>]
      /\ fp_state' = "returned" =>
           /\ fp_calls' = Ident(nsub)
           /\ layer_out'.bare <=> Len(output_endpoints') = 1
           /\ layer_out'.vals =
                [k \in 1..Len(output_endpoints') |->
                   Subtree(named_tensors', PathOf(output_endpoints'[k]))] ]_vars

\* C5 witness: the docstring example, endpoints a, b with 'a->c' and
\* 'c,b->d' and output d: the second layer received (value of the first
\* layer, second argument) and FProp returns its bare result
C5_Witness ==
  /\ fp_state = "returned"
  /\ input_endpoints = <<nA, nB>>
  /\ args = <<"tensor", "tensor">>
  /\ sig = MkSig(<<nC, nB>>, <<nD>>)
  /\ output_endpoints = <<nD>>
  /\ fp_calls = <<1, 2>>
  /\ input_args = <<TensorTree(1, 1), TensorTree(0, 2)>>
  /\ layer_out = [bare |-> TRUE, vals |-> <<TensorTree(2, 1)>>]

\* a failed namespace or output-arity check
NsFailed(st, err) ==
  st = "failed" /\ err \in {"bind", "get", "arity", "add", "out"}

\* C6: on a layer whose theta holds every child, FPropMeta visits the
\* sub-layers FProp visits, in the same order, makes the same namespace
\* accesses, returns the sum of the reported flops, and fails a namespace or
\* output-arity check exactly when FProp does.
C6_Parity ==
  theta = 1..nsub =>
    /\ m_calls = fp_calls
    /\ m_ops = fp_ops
    /\ total = SumSeq(m_flops)
    /\ m_state = "returned" => m_out.flops = SumSeq(m_flops)
    /\ NsFailed(m_state, m_err) <=> NsFailed(fp_state, fp_err)

\* FProp binds its arguments by reference (named_tensors[n] = t), so a
\* NestedMap argument is the very node of named_tensors it was bound at:
\* the paths at which FProp's k-th argument sits in nt
ArgNodes(nt, k) ==
  {q \in DOMAIN nt : nt[q] = [kind |-> "map", by |-> 0, pos |-> k]}

\* C17: whatever FProp has done, every NestedMap among its arguments has
\* the keys and values it was passed in with
C17_ArgsUntouched ==
  \A k \in 1..Len(args) :
    \A q \in ArgNodes(named_tensors, k) :
      Subtree(named_tensors, q) = ArgTree(args[k], k)

\* ------------------------------------------------------------------------
\* Properties of the SequentialLayer
\* ------------------------------------------------------------------------

\* xs repeated n times
RECURSIVE Times(_, _)
Times(xs, n) == IF n <= 0 THEN <<>> ELSE xs \o Times(xs, n - 1)

\* shape descriptors threaded by hand through the sub-layers js of p.sub
RECURSIVE Thread(_, _)
Thread(js, shapes) ==
  IF js = <<>> THEN [flops |-> 0, out_shapes |-> shapes]
  ELSE LET meta == SubFPropMeta(s_sub[Head(js)], shapes)
           rest == Thread(Tail(js), meta.out_shapes)
       IN [flops |-> meta.flops + rest.flops, out_shapes |-> rest.out_shapes]

SeqThetaAligned ==
  IF s_repeat <= 1 THEN \A j \in 1..Len(s_sub) : j \in s_theta.keys
  ELSE /\ Len(s_theta.rep) = s_repeat
       /\ \A r \in 1..Len(s_theta.rep) :
            \A j \in 1..Len(s_sub) : j \in s_theta.rep[r]

\* C8: for every p.repeat that __init__ accepts and every p.sub, FPropMeta
\* calls the sub-layers' FPropMeta in the sequence in which FProp (given a
\* theta that matches the layer) calls their FProp.
C8_SeqParity ==
  sf_state = "returned" /\ sm_state = "returned" /\ SeqThetaAligned
    => sm_calls = sf_calls

\* C9: FProp of a layer that has sub-layers fails when theta does not match
\* the layer: it returns only if theta holds every name it is to look up and
\* theta.rep has one entry per repetition, and then it has run every
\* sub-layer of every repetition.
C9_SeqAlignment ==
  s_sub # <<>> /\ sf_state = "returned" =>
    /\ SeqThetaAligned
    /\ Len(sf_calls) = Len(s_sub) * (IF s_repeat <= 1 THEN 1 ELSE s_repeat)

\* ------------------------------------------------------------------------
\* Properties of the RepeatLayer
\* ------------------------------------------------------------------------

\* slice i of the parameters the caller handed over: entry i of a variable,
\* and an entry that is no variable as it is
ThetaSlice(i) ==
  [j \in 1..Len(r_theta) |->
     [key |-> r_theta[j].key,
      val |-> IF r_theta[j].key \in r_vars THEN Scalar(r_theta[j].val.v[i])
              ELSE r_theta[j].val]]

\* the body applied by hand with slices i..p.repeat in turn
RECURSIVE Iterate(_, _)
Iterate(i, xs) ==
  IF i > r_repeat THEN xs
  ELSE Iterate(i + 1, ToTuple(BodyFProp(r_body, ThetaSlice(i), xs)))

\* the body returns as many outputs as it is given inputs
ArityKept ==
  Len(ToTuple(BodyFProp(r_body, ThetaSlice(1), r_args))) = Len(r_args)

\* C10: RepeatLayer.FProp with p.repeat = N >= 1 fails only when the body
\* does not return as many outputs as inputs; otherwise it calls the body
\* exactly N times, call i on slice i of the parameters and on the outputs of
\* call i - 1 (call 1 on the arguments), and returns the outputs of the last
\* call; with N = 1 that is what one call of the body on the arguments and
\* slice 1 returns.
C10_RepeatIterates ==
  /\ r_fp = "failed" => ~ArityKept
  /\ r_fp = "running" => Len(r_calls) <= r_repeat
  /\ r_fp = "returned" =>
       /\ r_repeat >= 1
       /\ ArityKept
       /\ Len(r_calls) = r_repeat
       /\ \A i \in 1..Len(r_calls) :
            /\ r_calls[i].theta = ThetaSlice(i)
            /\ r_calls[i].ins = IF i = 1 THEN r_args ELSE r_calls[i - 1].outs
       /\ r_out.vals = r_calls[Len(r_calls)].outs
       /\ r_out.vals = Iterate(1, r_args)
       /\ r_repeat = 1 => r_out = BodyFProp(r_body, ThetaSlice(1), r_args)

\* C10 witness: FProp returned after three calls of the body on different
\* slices, with an argument that is None among two
C10_Witness ==
  /\ r_fp = "returned"
  /\ r_repeat > 2
  /\ Len(r_calls) = r_repeat
  /\ r_calls[1].theta # r_calls[2].theta
  /\ r_calls[2].ins # r_calls[1].ins
  /\ Len(r_args) = 2
  /\ r_args[1] = None
  /\ r_out.vals # r_args

\* ------------------------------------------------------------------------
\* Properties of the ParallelRepeatLayer
\* ------------------------------------------------------------------------

\* slice i of the parameters the caller handed over
PRepThetaSlice(i) ==
  [j \in 1..Len(pr_theta) |->
     [key |-> pr_theta[j].key,
      val |-> IF pr_theta[j].key \in pr_vars
              THEN Scalar(pr_theta[j].val.v[i]) ELSE pr_theta[j].val]]

\* slice i of every argument
PRepArgSlice(i) == [k \in 1..Len(pr_args) |-> Scalar(pr_args[k].v[i])]

\* what the body returns on slice i of the parameters and of the arguments,
\* and on nothing else
PRepAlone(i) ==
  ToTuple(PRepBodyFProp(pr_body, PRepThetaSlice(i), PRepArgSlice(i)))

\* C11: when ParallelRepeatLayer.FProp with p.repeat = k returns, the body
\* was called k times, call i on slice i of the parameters and of every
\* argument, and slice i of every output returned is what the body returns
\* on slice i alone: no other slice and no carried state enters it; with an
\* identity body the outputs are the arguments.
C11_PRepIndependent ==
  pr_fp = "returned" =>
    /\ Len(pr_calls) = pr_repeat
    /\ \A i \in 1..Len(pr_calls) :
         /\ pr_calls[i].theta = PRepThetaSlice(i)
         /\ pr_calls[i].ins = PRepArgSlice(i)
    /\ \A k \in 1..Len(pr_out.vals) :
         /\ Len(pr_out.vals[k].v) = pr_repeat
         /\ \A i \in 1..pr_repeat :
              Scalar(pr_out.vals[k].v[i]) = PRepAlone(i)[k]
    /\ pr_body = "identity" =>
         pr_out = [bare |-> Len(pr_args) = 1, vals |-> pr_args]

\* C11 witness: FProp returned two slices that differ, of a body that reads
\* its parameters, on two arguments
C11_Witness ==
  /\ pr_fp = "returned"
  /\ pr_repeat = 2
  /\ pr_body = "affine"
  /\ Len(pr_args) = 2
  /\ pr_calls[1].theta # pr_calls[2].theta
  /\ pr_calls[1].ins # pr_calls[2].ins
  /\ pr_out.vals[1].v[1] # pr_out.vals[1].v[2]

\* C18: when FProp and FPropMeta have both returned, FProp returns as many
\* values as FPropMeta reports out_shapes, and as many as the body returns
C18_PRepArity ==
  (pr_fp = "returned" /\ pr_m = "returned") =>
    /\ Len(pr_out.vals) = Len(pr_meta.out_shapes)
    /\ Len(pr_out.vals) = Len(PRepAlone(1))

\* ------------------------------------------------------------------------
\* Properties of the SoftCondLayer
\* ------------------------------------------------------------------------

\* the parameters of the first expert: entry 1 of every variable
FirstExpert ==
  [j \in 1..Len(sc_theta) |->
     IF sc_theta[j].key \in sc_vars
     THEN [key |-> sc_theta[j].key, val |-> Scalar(sc_theta[j].val.v[1])]
     ELSE sc_theta[j]]

\* the parameters of the first expert, every variable multiplied by gate
ScaledExpert(gate) ==
  [j \in 1..Len(sc_theta) |->
     IF sc_theta[j].key \in sc_vars
     THEN [key |-> sc_theta[j].key,
           val |-> Scalar((gate * sc_theta[j].val.v[1]) \div GateScale)]
     ELSE sc_theta[j]]

\* C12 as stated: with num_experts = 1 FProp hands the body the first
\* expert's parameters, whatever the gate weight, and returns what the body
\* returns on them.
C12_SingleExpert ==
  sc_fp = "returned" /\ sc_experts = 1 =>
    /\ sc_calls = <<[theta |-> FirstExpert, ins |-> sc_inputs]>>
    /\ sc_out = SoftBodyFProp(FirstExpert, sc_inputs)

\* C12 amended: with num_experts = 1 FProp calls the body once, on the
\* inputs and on the first expert's parameters with every variable
\* multiplied by the gate weight sigmoid(emb . w), and returns what the body
\* returns; the parameters are the first expert's own where the gate weight
\* is 1.0.
C12_SingleExpertGated ==
  sc_fp = "returned" /\ sc_experts = 1 =>
    /\ sc_dist = GetExpertDist(sc_w, sc_inputs, sc_cond_dim, 1)
    /\ sc_calls = <<[theta |-> ScaledExpert(sc_dist[1]), ins |-> sc_inputs]>>
    /\ sc_out = SoftBodyFProp(ScaledExpert(sc_dist[1]), sc_inputs)
    /\ sc_dist[1] = GateScale => sc_calls[1].theta = FirstExpert

\* C12 witness: one expert with a non-zero variable and a gate weight of
\* 0.5: the body is handed half the variable
C12_Witness ==
  /\ sc_fp = "returned"
  /\ sc_experts = 1
  /\ sc_vars # {}
  /\ sc_theta[1].val.v[1] = GateScale
  /\ sc_dist[1] * 2 = GateScale
  /\ sc_calls[1].theta # FirstExpert

\* ------------------------------------------------------------------------
\* Properties of the BatchParallelLayer
\* ------------------------------------------------------------------------

\* the s-th of k contiguous blocks of x along the batch axis
Block(x, s, k) ==
  [r \in 1..(Len(x) \div k) |-> x[(s - 1) * (Len(x) \div k) + r]]

\* the arguments of shard s: its block of every argument, in argument order
ShardArgs(s) ==
  [a \in 1..Len(bp_args) |-> Block(bp_args[a].rows, s, bp_num)]

\* what the sub layer returns on shard s
ShardOut(s) == BatchSubFProp(bp_sub, bp_theta, ShardArgs(s))

\* position p of the outputs of shards s..bp_num, one after the other
RECURSIVE ShardsJoined(_, _)
ShardsJoined(p, s) ==
  IF s > bp_num THEN <<>> ELSE ShardOut(s).vals[p] \o ShardsJoined(p, s + 1)

\* C13: a returned FProp has called the sub layer once per shard, shard s
\* on the s-th contiguous block of every argument in argument order, and
\* returns at every output position the per-shard outputs joined in shard
\* order, bare where the sub layer returns a tensor and a tuple where it
\* returns a tuple; with one device it is the sub layer's own result on the
\* unsplit arguments
C13_BatchSharding ==
  bp_fp = "returned" =>
    /\ Len(bp_calls) = bp_num
    /\ \A s \in 1..bp_num :
         bp_calls[s] = [theta |-> bp_theta, xs |-> ShardArgs(s)]
    /\ bp_out.kind = ShardOut(1).kind
    /\ Len(bp_out.vals) = Len(ShardOut(1).vals)
    /\ \A p \in 1..Len(bp_out.vals) : bp_out.vals[p] = ShardsJoined(p, 1)
    /\ bp_num = 1 =>
         bp_out = BatchSubFProp(bp_sub, bp_theta,
                                [a \in 1..Len(bp_args) |-> bp_args[a].rows])

\* two shards of two rows each of two different arguments, returned as a
\* tuple whose halves differ
C13_Witness ==
  /\ bp_fp = "returned"
  /\ bp_num = 2
  /\ bp_sub = "pair"
  /\ Len(bp_args) = 2
  /\ bp_args[1].rows = <<0, 1, 1, 1>>
  /\ bp_args[2].rows = <<1, 0, 0, 0>>
  /\ bp_out = [kind |-> "tuple", vals |-> <<<<0, 1, 1, 1>>, <<1, 0, 0, 0>>>>]

\* ------------------------------------------------------------------------
\* Properties of the ArgIndexLayer
\* ------------------------------------------------------------------------

\* every index of p.idx is one of 0 .. len(args) - 1
AllInRange == \A k \in 1..Len(ai_idx) : 0 <= ai_idx[k] /\ ai_idx[k] < Len(ai_args)

\* C14: once FProp is over, it has returned args[idx[0]], args[idx[1]], ...
\* in that order (bare for one index) where every index is in range, and
\* otherwise has failed its range assertion with nothing selected
C14_ArgIndexRange ==
  ai_fp # "init" =>
    IF AllInRange
    THEN /\ ai_fp = "returned"
         /\ ai_out.vals = [k \in 1..Len(ai_idx) |-> ai_args[ai_idx[k] + 1]]
         /\ ai_out.bare = (Len(ai_idx) = 1)
    ELSE /\ ai_fp = "assert"
         /\ ai_r = <<>>

\* ------------------------------------------------------------------------
\* Properties of the FirstNLayer
\* ------------------------------------------------------------------------

\* C15: construction fails for n <= 0; on a built layer, once FProp and
\* FPropMeta are both over, both have failed where fewer than n arguments
\* were given, and otherwise FProp has returned the first n arguments (bare
\* for n = 1) and FPropMeta flops 0 and the shapes of those n arguments
C15_FirstNMirror ==
  /\ (fn_ctor # "new" /\ fn_n <= 0) => fn_ctor = "failed"
  /\ (fn_ctor = "built" /\ fn_fp # "init" /\ fn_m # "init") =>
       IF Len(fn_args) < fn_n
       THEN fn_fp = "failed" /\ fn_m = "failed"
       ELSE /\ fn_fp = "returned"
            /\ fn_out = [bare |-> fn_n = 1, vals |-> SubSeq(fn_args, 1, fn_n)]
            /\ fn_m = "returned"
            /\ fn_meta = [flops |-> 0,
                          out_shapes |-> [k \in 1..fn_n |->
                                            FirstNShape(fn_args[k])]]

\* ------------------------------------------------------------------------
\* Properties of the ParallelLayer
\* ------------------------------------------------------------------------

\* C16: every FPropMeta call returns with the record merge_meta handed out
\* as it was handed out, and all calls on one configuration return the
\* same flops
C16_MetaNotMutated ==
  /\ \A c \in 1..Len(pl_returns) : pl_returns[c].flops = pl_returns[c].given
  /\ \A c, d \in 1..Len(pl_returns) : pl_returns[c].flops = pl_returns[d].flops

====
